---------------------------- MODULE Spec2Model ----------------------------
(***************************************************************************)
(* A model of the ML-DSA-65 core of crypto/mldsa/mldsa.cc: field           *)
(* arithmetic, NTT, rounding and hints, bit packing, expansion, key        *)
(* generation, the signing loop, verification and the marshaling code.     *)
(*                                                                         *)
(* Representation.                                                         *)
(*   - A scalar is a sequence of kDegree coefficients; coefficient c[i] of *)
(*     the source is s[i + 1] here.  A vector<X> is a sequence of X        *)
(*     scalars and a matrix<K, L> a sequence of K sequences of L scalars.  *)
(*   - A byte string is a sequence of numbers in 0..255.                   *)
(*   - TLC's integers are 32-bit signed, so a uint64_t is kept as four     *)
(*     16-bit limbs <<l0, l1, l2, l3>> (least significant first) and the   *)
(*     64-bit products of reduce_montgomery are computed limb by limb,     *)
(*     wrapping exactly where the C arithmetic wraps.                      *)
(*   - The ring degree is 2^LogDegree.  The source fixes 2^8 = 256; the    *)
(*     butterflies, the root table and the packers are those of the source *)
(*     for every power of two from 8 to 256 (a prefix of the bit-reversed  *)
(*     root table is the root table of the smaller ring), and the sizes    *)
(*     that the source derives from kDegree are derived from it here.      *)
(*   - SHAKE-128 / SHAKE-256 are outside the file; they are a              *)
(*     deterministic extendable-output function with the absorb / squeeze  *)
(*     interface the file uses.                                            *)
(***************************************************************************)
EXTENDS Integers, Sequences, FiniteSets, TLC

(***************************************************************************)
(* Bounds of the model.                                                    *)
(***************************************************************************)
\* log2 of the ring degree (8 in the source).
LogDegree == 4

(***************************************************************************)
(* Program constants.                                                      *)
(***************************************************************************)
kDegree == 2 ^ LogDegree
kRhoBytes == 32
kSigmaBytes == 64
kKBytes == 32
kTrBytes == 64
kMuBytes == 64
kRhoPrimeBytes == 64
kPrime == 8380417
\* kPrimeNegInverse = 4236238847 = kPrimeNegInverseHi * 2^16 + kPrimeNegInverseLo
kPrimeNegInverseLo == 57343
kPrimeNegInverseHi == 64639
kDroppedBits == 13
kHalfPrime == (kPrime - 1) \div 2
kGamma2 == (kPrime - 1) \div 32
\* 2^64 modulo kPrime (montgomery_square in the source's comment).
montgomery_square == 2365951

RECURSIVE halve_mod(_, _)
halve_mod(x, k) ==
  IF k = 0 THEN x
  ELSE halve_mod(IF x % 2 = 0 THEN x \div 2 ELSE (x + kPrime) \div 2, k - 1)

\* kDegree^-1 * 2^32 mod kPrime: the factor with which the last loop of the
\* inverse transform would leave a transform of p as p.
kInverseDegreeSingle ==
  halve_mod(halve_mod(montgomery_square, 32), LogDegree)

\* kDegree^-1 * 2^64 mod kPrime: 41978 for the source's kDegree = 256.
kInverseDegreeMontgomery == halve_mod(montgomery_square, LogDegree)

\* The parameter set: ML-DSA-65 is the instantiation <K, L> = <6, 5>.
K == 6

L == 5

\* tau<6>() is 49 in the ring of degree 256; the challenge of a ring of
\* smaller degree has half of its coefficients non-zero, which keeps
\* tau * eta <= beta and tau * 2^(kDroppedBits - 1) < kGamma2 as at full size.
tau == IF kDegree < 256 THEN kDegree \div 2 ELSE 49

lambda_bytes == 192 \div 8

gamma1 == 2 ^ 19

beta == 196

omega == 55

eta == 4

plus_minus_eta_bitlen == 4

public_key_bytes == kRhoBytes + ((10 * kDegree) \div 8) * K

signature_bytes ==
  2 * lambda_bytes + ((20 * kDegree) \div 8) * L + omega + K

MLDSA_SEED_BYTES == 32

MLDSA65_SIGNATURE_RANDOMIZER_BYTES == 32

kNTTRootsMontgomery ==
  << 4193792, 25847,   5771523, 7861508, 237124,  7602457, 7504169, 466468,
     1826347, 2353451, 8021166, 6288512, 3119733, 5495562, 3111497, 2680103,
     2725464, 1024112, 7300517, 3585928, 7830929, 7260833, 2619752, 6271868,
     6262231, 4520680, 6980856, 5102745, 1757237, 8360995, 4010497, 280005,
     2706023, 95776,   3077325, 3530437, 6718724, 4788269, 5842901, 3915439,
     4519302, 5336701, 3574422, 5512770, 3539968, 8079950, 2348700, 7841118,
     6681150, 6736599, 3505694, 4558682, 3507263, 6239768, 6779997, 3699596,
     811944,  531354,  954230,  3881043, 3900724, 5823537, 2071892, 5582638,
     4450022, 6851714, 4702672, 5339162, 6927966, 3475950, 2176455, 6795196,
     7122806, 1939314, 4296819, 7380215, 5190273, 5223087, 4747489, 126922,
     3412210, 7396998, 2147896, 2715295, 5412772, 4686924, 7969390, 5903370,
     7709315, 7151892, 8357436, 7072248, 7998430, 1349076, 1852771, 6949987,
     5037034, 264944,  508951,  3097992, 44288,   7280319, 904516,  3958618,
     4656075, 8371839, 1653064, 5130689, 2389356, 8169440, 759969,  7063561,
     189548,  4827145, 3159746, 6529015, 5971092, 8202977, 1315589, 1341330,
     1285669, 6795489, 7567685, 6940675, 5361315, 4499357, 4751448, 3839961,
     2091667, 3407706, 2316500, 3817976, 5037939, 2244091, 5933984, 4817955,
     266997,  2434439, 7144689, 3513181, 4860065, 4621053, 7183191, 5187039,
     900702,  1859098, 909542,  819034,  495491,  6767243, 8337157, 7857917,
     7725090, 5257975, 2031748, 3207046, 4823422, 7855319, 7611795, 4784579,
     342297,  286988,  5942594, 4108315, 3437287, 5038140, 1735879, 203044,
     2842341, 2691481, 5790267, 1265009, 4055324, 1247620, 2486353, 1595974,
     4613401, 1250494, 2635921, 4832145, 5386378, 1869119, 1903435, 7329447,
     7047359, 1237275, 5062207, 6950192, 7929317, 1312455, 3306115, 6417775,
     7100756, 1917081, 5834105, 7005614, 1500165, 777191,  2235880, 3406031,
     7838005, 5548557, 6709241, 6533464, 5796124, 4656147, 594136,  4603424,
     6366809, 2432395, 2454455, 8215696, 1957272, 3369112, 185531,  7173032,
     5196991, 162844,  1616392, 3014001, 810149,  1652634, 4686184, 6581310,
     5341501, 3523897, 3866901, 269760,  2213111, 7404533, 1717735, 472078,
     7953734, 1723600, 6577327, 1910376, 6712985, 7276084, 8119771, 4546524,
     5441381, 6144432, 7959518, 6094090, 183443,  7403526, 1612842, 4834730,
     7826001, 3919660, 8332111, 7018208, 3937738, 1400424, 7534263, 1976782 >>

(***************************************************************************)
(* Machine words.                                                          *)
(***************************************************************************)
W16 == 65536

\* Four sums of 16-bit limbs, lowest first, as a uint64_t: the carries are
\* passed up and the carry out of the top limb is dropped.
Carry3(t0, t1, t2, t3) == <<t0, t1, t2 % W16, (t3 + (t2 \div W16)) % W16>>

Carry2(t0, t1, t2, t3) == Carry3(t0, t1 % W16, t2 + (t1 \div W16), t3)

Carry64(t0, t1, t2, t3) == Carry2(t0 % W16, t1 + (t0 \div W16), t2, t3)

\* The product of two 16-bit numbers as <<low 16 bits, high 16 bits>>, from
\* the products p0 and p1 of the one with the low and the high byte of the
\* other.
Mul16Join(p0, p1) ==
  <<(p0 + (p1 % 256) * 256) % W16,
    (p1 \div 256) + ((p0 + (p1 % 256) * 256) \div W16)>>

Mul16(x, y) == Mul16Join(x * (y % 256), x * (y \div 256))

\* (uint64_t)a * (uint64_t)b for 32-bit a = <<a0, a1>> and b = <<b0, b1>>,
\* from the four products of their limbs.
Mul32x32Sum(p00, p01, p10, p11) ==
  Carry64(p00[1], p00[2] + p01[1] + p10[1], p01[2] + p10[2] + p11[1], p11[2])

Mul32x32(a, b) ==
  Mul32x32Sum(Mul16(a[1], b[1]), Mul16(a[1], b[2]), Mul16(a[2], b[1]),
              Mul16(a[2], b[2]))

\* a + b for uint64_t a and b, wrapping at 2^64.
Add64(a, b) == Carry64(a[1] + b[1], a[2] + b[2], a[3] + b[3], a[4] + b[4])

\* The two limbs of a number below 2^31.
Limbs32(x) == <<x % W16, x \div W16>>

\* x <= y for uint64_t x and y.
Le64(x, y) ==
  \/ x[4] < y[4]
  \/ x[4] = y[4] /\ x[3] < y[3]
  \/ x[4] = y[4] /\ x[3] = y[3] /\ x[2] < y[2]
  \/ x[4] = y[4] /\ x[3] = y[3] /\ x[2] = y[2] /\ x[1] <= y[1]

(***************************************************************************)
(* Arithmetic.                                                             *)
(***************************************************************************)
\* reduce_once without its subtraction.
reduce_once_kept(x) == x

\* x - kPrime in uint32_t arithmetic is only reached for x >= kPrime.
reduce_once(x) == IF x < kPrime THEN x ELSE x - kPrime

\* The argument is the int32_t a uint32_t coefficient stands for.
abs_signed(x) == IF x >= 0 THEN x ELSE 0 - x

abs_mod_prime(x) == IF kHalfPrime < x THEN kPrime - x ELSE x

maximum(x, y) == IF x < y THEN y ELSE x

mod_sub(a, b) == reduce_once(kPrime + a - b)

\* reduce_montgomery before its reduce_once: <<b, c>> for the uint64_t x,
\* a = (uint32_t)x * kPrimeNegInverse, b = x + a * kPrime and c = b >> 32 as
\* a uint32_t (below 2 * kPrime when the precondition x <= kPrime * 2^32
\* holds).
montgomery_shift(b) == <<b, b[3] + (b[4] % 32768) * W16>>

montgomery_b(x, a) ==
  montgomery_shift(Add64(x, Mul32x32(<<a[1], a[2]>>, Limbs32(kPrime))))

montgomery_c(x) ==
  montgomery_b(x, Mul32x32(<<x[1], x[2]>>,
                           <<kPrimeNegInverseLo, kPrimeNegInverseHi>>))

\* reduce_montgomery without its reduce_once.
reduce_montgomery_unreduced(x) == montgomery_c(x)[2]

reduce_montgomery(x) == reduce_once(montgomery_c(x)[2])

\* (uint64_t)a * (uint64_t)b for coefficients a, b below 2^31.
mul_u64(a, b) == Mul32x32(Limbs32(a), Limbs32(b))

(***************************************************************************)
(* TLC hands an operator its arguments unevaluated, so a loop that only    *)
(* passes its array on would pile up the whole computation before running  *)
(* it.  The loops below read Len of the array they carry, which makes TLC  *)
(* evaluate it at every iteration; the test is always true.                *)
(***************************************************************************)
\* An array written element by element, [ix \in 1..n |-> ...], as the
\* sequence of its elements, each computed once.
stored(f) == SubSeq(f, 1, Len(f))

\* The sequences pieces[1], pieces[2], ... written one after the other.
RECURSIVE concat_all(_, _, _)
concat_all(pieces, i, acc) ==
  IF Len(acc) >= 0 /\ i <= Len(pieces)
  THEN concat_all(pieces, i + 1, acc \o pieces[i])
  ELSE acc

scalar_add(lhs, rhs) ==
  LET c(i) == reduce_once(lhs[i] + rhs[i]) IN stored([ix \in 1..kDegree |-> c(ix)])

scalar_sub(lhs, rhs) ==
  LET c(i) == mod_sub(lhs[i], rhs[i]) IN stored([ix \in 1..kDegree |-> c(ix)])

\* A product that takes both factors from lhs.
scalar_mult_square(lhs, rhs) ==
  LET c(i) == reduce_montgomery(mul_u64(lhs[i], lhs[i]))
  IN  stored([ix \in 1..kDegree |-> c(ix)])

\* Multiply two scalars in the number theoretically transformed state.
scalar_mult(lhs, rhs) ==
  LET c(i) == reduce_montgomery(mul_u64(lhs[i], rhs[i]))
  IN  stored([ix \in 1..kDegree |-> c(ix)])

\* The loop over j of scalar_ntt: the butterflies of one block.
RECURSIVE ntt_block(_, _, _, _, _)
ntt_block(s, step_root, j, end, offset) ==
  IF Len(s) = kDegree /\ j < end
  THEN LET even == s[j + 1]
           odd  == reduce_montgomery(mul_u64(step_root, s[j + offset + 1]))
       IN  ntt_block([s EXCEPT ![j + 1] = reduce_once(odd + even),
                               ![j + offset + 1] = mod_sub(even, odd)],
                     step_root, j + 1, end, offset)
  ELSE s

\* The loop over i of scalar_ntt; k = 2 * offset * i.
RECURSIVE ntt_blocks(_, _, _, _)
ntt_blocks(s, step, i, offset) ==
  IF Len(s) = kDegree /\ i < step
  THEN LET k == 2 * offset * i
       IN  ntt_blocks(ntt_block(s, kNTTRootsMontgomery[step + i + 1], k,
                                k + offset, offset),
                      step, i + 1, offset)
  ELSE s

\* The loop over step of scalar_ntt; offset has already been halved.
RECURSIVE ntt_steps(_, _, _)
ntt_steps(s, step, offset) ==
  IF Len(s) = kDegree /\ step < kDegree
  THEN ntt_steps(ntt_blocks(s, step, 0, offset), step * 2, offset \div 2)
  ELSE s

\* FIPS 204, Algorithm 41 (NTT).
scalar_ntt(s) == ntt_steps(s, 1, kDegree \div 2)

RECURSIVE intt_block(_, _, _, _, _)
intt_block(s, step_root, j, end, offset) ==
  IF Len(s) = kDegree /\ j < end
  THEN LET even == s[j + 1]
           odd  == s[j + offset + 1]
       IN  intt_block([s EXCEPT ![j + 1] = reduce_once(odd + even),
                                ![j + offset + 1] =
                                   reduce_montgomery(
                                     mul_u64(step_root, kPrime + even - odd))],
                      step_root, j + 1, end, offset)
  ELSE s

RECURSIVE intt_blocks(_, _, _, _)
intt_blocks(s, step, i, offset) ==
  IF Len(s) = kDegree /\ i < step
  THEN LET k == 2 * offset * i
       IN  intt_blocks(
             intt_block(s,
                        kPrime - kNTTRootsMontgomery[step + (step - 1 - i) + 1],
                        k, k + offset, offset),
             step, i + 1, offset)
  ELSE s

\* The loop over offset of scalar_inverse_ntt; step has already been halved.
RECURSIVE intt_steps(_, _, _)
intt_steps(s, step, offset) ==
  IF Len(s) = kDegree /\ offset < kDegree
  THEN intt_steps(intt_blocks(s, step, 0, offset), step \div 2, offset * 2)
  ELSE s

\* FIPS 204, Algorithm 42 (NTT^-1).
scalar_inverse_ntt(s) ==
  LET t == intt_steps(s, kDegree \div 2, 1)
      c(i) == reduce_montgomery(mul_u64(t[i], kInverseDegreeMontgomery))
  IN  stored([ix \in 1..kDegree |-> c(ix)])

\* memset(out, 0, sizeof(*out)) for a scalar and for a vector<X>.
scalar_zero == LET c(i) == 0 IN stored([ix \in 1..kDegree |-> c(ix)])

vector_zero(X) == LET e(i) == scalar_zero IN stored([ix \in 1..X |-> e(ix)])

vector_add(lhs, rhs) ==
  LET e(i) == scalar_add(lhs[i], rhs[i]) IN stored([ix \in 1..Len(lhs) |-> e(ix)])

vector_sub(lhs, rhs) ==
  LET e(i) == scalar_sub(lhs[i], rhs[i]) IN stored([ix \in 1..Len(lhs) |-> e(ix)])

vector_mult_scalar(lhs, rhs) ==
  LET e(i) == scalar_mult(lhs[i], rhs) IN stored([ix \in 1..Len(lhs) |-> e(ix)])

vector_ntt(a) == LET e(i) == scalar_ntt(a[i]) IN stored([ix \in 1..Len(a) |-> e(ix)])

vector_inverse_ntt(a) ==
  LET e(i) == scalar_inverse_ntt(a[i]) IN stored([ix \in 1..Len(a) |-> e(ix)])

\* The loop over j of matrix_mult for row i: out->v[i] += m[i][j] * a[j].
RECURSIVE matrix_mult_row(_, _, _, _)
matrix_mult_row(acc, row, a, j) ==
  IF Len(acc) = kDegree /\ j <= Len(a)
  THEN matrix_mult_row(scalar_add(acc, scalar_mult(row[j], a[j])),
                       row, a, j + 1)
  ELSE acc

matrix_mult(m, a) ==
  LET e(i) == matrix_mult_row(scalar_zero, m[i], a, 1)
  IN  stored([ix \in 1..Len(m) |-> e(ix)])

(***************************************************************************)
(* Rounding and hints.                                                     *)
(***************************************************************************)
\* Power2Round without the step that centres r0.
power2_round_floor(r) ==
  <<r \div (2 ^ kDroppedBits), r % (2 ^ kDroppedBits)>>

\* FIPS 204, Algorithm 35 (Power2Round): <<r1, r0>>.
power2_round(r) ==
  LET r1 == r \div (2 ^ kDroppedBits)
      r0 == r - r1 * (2 ^ kDroppedBits)
      r0_adjusted == mod_sub(r0, 2 ^ kDroppedBits)
      r1_adjusted == r1 + 1
      mask == 2 ^ (kDroppedBits - 1) < r0
  IN  <<IF mask THEN r1_adjusted ELSE r1, IF mask THEN r0_adjusted ELSE r0>>

\* scale_power2_round with the shift one bit short: a slip that the
\* sign/verify round trip has to notice.
scale_power2_round_short(r1) == r1 * (2 ^ (kDroppedBits - 1))

\* Scale back previously rounded value.
scale_power2_round(r1) == r1 * (2 ^ kDroppedBits)

\* The high bits as the quotient by 2 * kGamma2, rounded down.
high_bits_floor(x) == (x \div (2 * kGamma2)) % 16

\* FIPS 204, Algorithm 37 (HighBits).
high_bits(x) ==
  LET r1 == (x + 127) \div 128
  IN  ((r1 * 1025 + 2097152) \div 4194304) % 16

\* Decompose without the step that brings r0 below kHalfPrime.
decompose_unsigned(r) == <<high_bits(r), r - high_bits(r) * 2 * kGamma2>>

\* FIPS 204, Algorithm 36 (Decompose): <<r1, r0>>, r0 an int32_t.
decompose(r) ==
  LET r1 == high_bits(r)
      r0 == r - r1 * 2 * kGamma2
  IN  <<r1, IF kHalfPrime - r0 < 0 THEN r0 - kPrime ELSE r0>>

\* FIPS 204, Algorithm 38 (LowBits).
low_bits(x) == decompose(x)[2]

\* A hint that compares against the high bits of w, not of w - cs2.
make_hint_of_w(ct0, cs2, w) ==
  IF high_bits(reduce_once(mod_sub(w, cs2) + ct0)) # high_bits(w)
  THEN 1 ELSE 0

\* FIPS 204, Algorithm 39 (MakeHint).
make_hint(ct0, cs2, w) ==
  LET r_plus_z == mod_sub(w, cs2)
      r == reduce_once(r_plus_z + ct0)
  IN  IF high_bits(r) # high_bits(r_plus_z) THEN 1 ELSE 0

\* UseHint with its two sums not reduced modulo 16.
use_hint_vartime_unmasked(h, r) ==
  LET d == decompose(r)
  IN  IF h # 0
      THEN IF d[2] > 0 THEN d[1] + 1 ELSE d[1] - 1
      ELSE d[1]

\* FIPS 204, Algorithm 40 (UseHint).
use_hint_vartime(h, r) ==
  LET d == decompose(r)
  IN  IF h # 0
      THEN IF d[2] > 0 THEN (d[1] + 1) % 16 ELSE (d[1] + 15) % 16
      ELSE d[1]

scalar_power2_round(s) ==
  LET p(i) == power2_round(s[i])
      r == stored([ix \in 1..kDegree |-> p(ix)])
      c1(i) == r[i][1]
      c0(i) == r[i][2]
  IN  <<stored([ix \in 1..kDegree |-> c1(ix)]), stored([ix \in 1..kDegree |-> c0(ix)])>>

scalar_scale_power2_round(in) ==
  LET c(i) == scale_power2_round(in[i]) IN stored([ix \in 1..kDegree |-> c(ix)])

scalar_high_bits(in) ==
  LET c(i) == high_bits(in[i]) IN stored([ix \in 1..kDegree |-> c(ix)])

\* The int32_t that low_bits returns is stored in a uint32_t coefficient; the
\* coefficient is kept here as that int32_t.
scalar_low_bits(in) ==
  LET c(i) == low_bits(in[i]) IN stored([ix \in 1..kDegree |-> c(ix)])

RECURSIVE scalar_max_loop(_, _, _)
scalar_max_loop(max, s, i) ==
  IF max >= 0 /\ i <= kDegree
  THEN scalar_max_loop(maximum(max, abs_mod_prime(s[i])), s, i + 1)
  ELSE max

scalar_max(max, s) == scalar_max_loop(max, s, 1)

RECURSIVE scalar_max_signed_loop(_, _, _)
scalar_max_signed_loop(max, s, i) ==
  IF max >= 0 /\ i <= kDegree
  THEN scalar_max_signed_loop(maximum(max, abs_signed(s[i])), s, i + 1)
  ELSE max

scalar_max_signed(max, s) == scalar_max_signed_loop(max, s, 1)

scalar_make_hint(ct0, cs2, w) ==
  LET c(i) == make_hint(ct0[i], cs2[i], w[i]) IN stored([ix \in 1..kDegree |-> c(ix)])

scalar_use_hint_vartime(h, r) ==
  LET c(i) == use_hint_vartime(h[i], r[i]) IN stored([ix \in 1..kDegree |-> c(ix)])

\* <<t1, t0>>.
vector_power2_round(t) ==
  LET p(i) == scalar_power2_round(t[i])
      r == stored([ix \in 1..Len(t) |-> p(ix)])
      e1(i) == r[i][1]
      e0(i) == r[i][2]
  IN  <<stored([ix \in 1..Len(t) |-> e1(ix)]), stored([ix \in 1..Len(t) |-> e0(ix)])>>

vector_scale_power2_round(in) ==
  LET e(i) == scalar_scale_power2_round(in[i]) IN stored([ix \in 1..Len(in) |-> e(ix)])

vector_high_bits(in) ==
  LET e(i) == scalar_high_bits(in[i]) IN stored([ix \in 1..Len(in) |-> e(ix)])

vector_low_bits(in) ==
  LET e(i) == scalar_low_bits(in[i]) IN stored([ix \in 1..Len(in) |-> e(ix)])

RECURSIVE vector_max_loop(_, _, _)
vector_max_loop(max, a, i) ==
  IF max >= 0 /\ i <= Len(a)
  THEN vector_max_loop(scalar_max(max, a[i]), a, i + 1)
  ELSE max

vector_max(a) == vector_max_loop(0, a, 1)

RECURSIVE vector_max_signed_loop(_, _, _)
vector_max_signed_loop(max, a, i) ==
  IF max >= 0 /\ i <= Len(a)
  THEN vector_max_signed_loop(scalar_max_signed(max, a[i]), a, i + 1)
  ELSE max

vector_max_signed(a) == vector_max_signed_loop(0, a, 1)

\* The loop of vector_count_ones, over the X * kDegree coefficients in order.
RECURSIVE count_ones_loop(_, _, _)
count_ones_loop(count, a, n) ==
  IF count >= 0 /\ n < Len(a) * kDegree
  THEN count_ones_loop(count + a[(n \div kDegree) + 1][(n % kDegree) + 1],
                       a, n + 1)
  ELSE count

\* The input vector contains only zeroes and ones.
vector_count_ones(a) == count_ones_loop(0, a, 0)

vector_make_hint(ct0, cs2, w) ==
  LET e(i) == scalar_make_hint(ct0[i], cs2[i], w[i])
  IN  stored([ix \in 1..Len(w) |-> e(ix)])

vector_use_hint_vartime(h, r) ==
  LET e(i) == scalar_use_hint_vartime(h[i], r[i])
  IN  stored([ix \in 1..Len(r) |-> e(ix)])

(***************************************************************************)
(* uint32_t words of the bit packers.  A word is the pair <<low 16 bits,   *)
(* high 16 bits>>; shifts truncate to 32 bits as the C operators do.       *)
(***************************************************************************)
RECURSIVE bor(_, _)
bor(x, y) ==
  IF x = 0 THEN y
  ELSE IF y = 0 THEN x
  ELSE maximum(x % 2, y % 2) + 2 * bor(x \div 2, y \div 2)

RECURSIVE band(_, _)
band(x, y) ==
  IF x = 0 \/ y = 0 THEN 0
  ELSE (x % 2) * (y % 2) + 2 * band(x \div 2, y \div 2)

or32(a, b) == <<bor(a[1], b[1]), bor(a[2], b[2])>>

and32(a, b) == <<band(a[1], b[1]), band(a[2], b[2])>>

shr32(v, sh) ==
  IF sh >= 16
  THEN <<v[2] \div (2 ^ (sh - 16)), 0>>
  ELSE <<(v[1] \div (2 ^ sh)) + (v[2] % (2 ^ sh)) * (2 ^ (16 - sh)),
         v[2] \div (2 ^ sh)>>

shl32(v, sh) ==
  IF sh >= 16
  THEN <<0, (v[1] % (2 ^ (32 - sh))) * (2 ^ (sh - 16))>>
  ELSE <<(v[1] % (2 ^ (16 - sh))) * (2 ^ sh),
         (v[2] % (2 ^ (16 - sh))) * (2 ^ sh) + (v[1] \div (2 ^ (16 - sh)))>>

\* v & ((1u << w) - 1), as a number; w <= 30.
mask32(v, w) ==
  IF w <= 16 THEN v[1] % (2 ^ w) ELSE v[1] + (v[2] % (2 ^ (w - 16))) * W16

\* The number a word below 2^31 stands for.
val32(v) == v[1] + v[2] * W16

\* memcpy between a uint32_t and four bytes (little-endian).
bytes32(v) == <<v[1] % 256, v[1] \div 256, v[2] % 256, v[2] \div 256>>

load32(in, off) ==
  <<in[off + 1] + 256 * in[off + 2], in[off + 3] + 256 * in[off + 4]>>

(***************************************************************************)
(* Bit packing.                                                            *)
(***************************************************************************)
\* FIPS 204, Algorithm 16 (SimpleBitPack), bitlen(b) = 4.
scalar_encode_4(s) ==
  LET g(i) == LET a == Limbs32(s[2 * i + 1])
                  b == Limbs32(s[2 * i + 2])
              IN  <<or32(a, shl32(b, 4))[1] % 256>>
  IN  concat_all(stored([ix \in 1..kDegree \div 2 |-> g(ix - 1)]), 1, <<>>)

\* FIPS 204, Algorithm 16 (SimpleBitPack), bitlen(b) = 10.
scalar_encode_10(s) ==
  LET g(i) == LET a == Limbs32(s[4 * i + 1])
                  b == Limbs32(s[4 * i + 2])
                  c == Limbs32(s[4 * i + 3])
                  d == Limbs32(s[4 * i + 4])
              IN  <<a[1] % 256,
                    or32(shr32(a, 8), shl32(b, 2))[1] % 256,
                    or32(shr32(b, 6), shl32(c, 4))[1] % 256,
                    or32(shr32(c, 4), shl32(d, 6))[1] % 256,
                    shr32(d, 2)[1] % 256>>
  IN  concat_all(stored([ix \in 1..kDegree \div 4 |-> g(ix - 1)]), 1, <<>>)

\* FIPS 204, Algorithm 17 (BitPack), bitlen(b) = 4 and b = 4.
scalar_encode_signed_4_4(s) ==
  LET g(i) == LET a == Limbs32(mod_sub(4, s[2 * i + 1]))
                  b == Limbs32(mod_sub(4, s[2 * i + 2]))
              IN  <<or32(a, shl32(b, 4))[1] % 256>>
  IN  concat_all(stored([ix \in 1..kDegree \div 2 |-> g(ix - 1)]), 1, <<>>)

\* FIPS 204, Algorithm 17 (BitPack), bitlen(b) = 13 and b = 2^12.
scalar_encode_signed_13_12(s) ==
  LET kMax == 2 ^ 12
      g(i) ==
        LET a == Limbs32(mod_sub(kMax, s[8 * i + 1]))
            b == Limbs32(mod_sub(kMax, s[8 * i + 2]))
            c == Limbs32(mod_sub(kMax, s[8 * i + 3]))
            d == Limbs32(mod_sub(kMax, s[8 * i + 4]))
            e == Limbs32(mod_sub(kMax, s[8 * i + 5]))
            f == Limbs32(mod_sub(kMax, s[8 * i + 6]))
            gg == Limbs32(mod_sub(kMax, s[8 * i + 7]))
            h == Limbs32(mod_sub(kMax, s[8 * i + 8]))
            a2 == or32(or32(a, shl32(b, 13)), shl32(c, 26))
            c2 == or32(or32(shr32(c, 6), shl32(d, 7)), shl32(e, 20))
            e2 == or32(or32(or32(shr32(e, 12), shl32(f, 1)), shl32(gg, 14)),
                       shl32(h, 27))
            h2 == shr32(h, 5)
        IN  bytes32(a2) \o bytes32(c2) \o bytes32(e2) \o <<h2[1] % 256>>
  IN  concat_all(stored([ix \in 1..kDegree \div 8 |-> g(ix - 1)]), 1, <<>>)

\* FIPS 204, Algorithm 17 (BitPack), bitlen(b) = 20 and b = 2^19.
scalar_encode_signed_20_19(s) ==
  LET kMax == 2 ^ 19
      g(i) ==
        LET a == Limbs32(mod_sub(kMax, s[4 * i + 1]))
            b == Limbs32(mod_sub(kMax, s[4 * i + 2]))
            c == Limbs32(mod_sub(kMax, s[4 * i + 3]))
            d == Limbs32(mod_sub(kMax, s[4 * i + 4]))
            a2 == or32(a, shl32(b, 20))
            b2 == or32(or32(shr32(b, 12), shl32(c, 8)), shl32(d, 28))
            d2 == shr32(d, 4)
        IN  bytes32(a2) \o bytes32(b2) \o <<d2[1] % 256, d2[1] \div 256>>
  IN  concat_all(stored([ix \in 1..kDegree \div 4 |-> g(ix - 1)]), 1, <<>>)

\* FIPS 204, Algorithm 17 (BitPack).
scalar_encode_signed(s, bits, max) ==
  IF bits = 4 THEN scalar_encode_signed_4_4(s)
  ELSE IF bits = 20 THEN scalar_encode_signed_20_19(s)
  ELSE scalar_encode_signed_13_12(s)

\* SimpleBitUnpack with the fourth coefficient of a group taken from the top
\* bits of the word alone.
scalar_decode_10_low(in) ==
  LET g(i) == LET v == load32(in, 5 * i)
              IN  <<mask32(v, 10),
                    mask32(shr32(v, 10), 10),
                    mask32(shr32(v, 20), 10),
                    val32(shr32(v, 30))>>
  IN  concat_all(stored([ix \in 1..kDegree \div 4 |-> g(ix - 1)]), 1, <<>>)

\* FIPS 204, Algorithm 18 (SimpleBitUnpack), bitlen(b) = 10.
scalar_decode_10(in) ==
  LET g(i) == LET v == load32(in, 5 * i)
              IN  <<mask32(v, 10),
                    mask32(shr32(v, 10), 10),
                    mask32(shr32(v, 20), 10),
                    val32(or32(shr32(v, 30),
                               shl32(Limbs32(in[5 * i + 5]), 2)))>>
  IN  concat_all(stored([ix \in 1..kDegree \div 4 |-> g(ix - 1)]), 1, <<>>)

\* FIPS 204, Algorithm 19 (BitUnpack), bitlen(a+b) = 4 and b = 4.  The scalar
\* is written in place, eight coefficients per word, so a rejected word
\* leaves the coefficients of the words before it written: <<ret, out>>.
RECURSIVE scalar_decode_signed_4_4_loop(_, _, _)
scalar_decode_signed_4_4_loop(out, in, i) ==
  IF Len(out) = kDegree /\ i < kDegree \div 8
  THEN LET v == load32(in, 4 * i)
           msbs == and32(v, <<34952, 34952>>)
           mask == or32(or32(shr32(msbs, 1), shr32(msbs, 2)), shr32(msbs, 3))
       IN  IF and32(mask, v) # <<0, 0>>
           THEN <<0, out>>
           ELSE scalar_decode_signed_4_4_loop(
                  [out EXCEPT
                     ![i * 8 + 1] = mod_sub(4, mask32(v, 4)),
                     ![i * 8 + 2] = mod_sub(4, mask32(shr32(v, 4), 4)),
                     ![i * 8 + 3] = mod_sub(4, mask32(shr32(v, 8), 4)),
                     ![i * 8 + 4] = mod_sub(4, mask32(shr32(v, 12), 4)),
                     ![i * 8 + 5] = mod_sub(4, mask32(shr32(v, 16), 4)),
                     ![i * 8 + 6] = mod_sub(4, mask32(shr32(v, 20), 4)),
                     ![i * 8 + 7] = mod_sub(4, mask32(shr32(v, 24), 4)),
                     ![i * 8 + 8] = mod_sub(4, val32(shr32(v, 28)))],
                  in, i + 1)
  ELSE <<1, out>>

scalar_decode_signed_4_4(out, in) == scalar_decode_signed_4_4_loop(out, in, 0)

\* FIPS 204, Algorithm 19 (BitUnpack), bitlen(a+b) = 13 and b = 2^12.
scalar_decode_signed_13_12(in) ==
  LET kMax == 2 ^ 12
      g(i) ==
        LET a == load32(in, 13 * i)
            b == load32(in, 13 * i + 4)
            c == load32(in, 13 * i + 8)
            d == in[13 * i + 13]
        IN  <<mod_sub(kMax, mask32(a, 13)),
              mod_sub(kMax, mask32(shr32(a, 13), 13)),
              mod_sub(kMax, val32(or32(shr32(a, 26),
                                       shl32(Limbs32(mask32(b, 7)), 6)))),
              mod_sub(kMax, mask32(shr32(b, 7), 13)),
              mod_sub(kMax, val32(or32(shr32(b, 20),
                                       shl32(Limbs32(mask32(c, 1)), 12)))),
              mod_sub(kMax, mask32(shr32(c, 1), 13)),
              mod_sub(kMax, mask32(shr32(c, 14), 13)),
              mod_sub(kMax, val32(or32(shr32(c, 27), shl32(Limbs32(d), 5))))>>
  IN  concat_all(stored([ix \in 1..kDegree \div 8 |-> g(ix - 1)]), 1, <<>>)

\* FIPS 204, Algorithm 19 (BitUnpack), bitlen(a+b) = 20 and b = 2^19.
scalar_decode_signed_20_19(in) ==
  LET kMax == 2 ^ 19
      g(i) ==
        LET a == load32(in, 10 * i)
            b == load32(in, 10 * i + 4)
            c == in[10 * i + 9] + 256 * in[10 * i + 10]
        IN  <<mod_sub(kMax, mask32(a, 20)),
              mod_sub(kMax, val32(or32(shr32(a, 20),
                                       shl32(Limbs32(mask32(b, 8)), 12)))),
              mod_sub(kMax, mask32(shr32(b, 8), 20)),
              mod_sub(kMax, val32(or32(shr32(b, 28), shl32(Limbs32(c), 4))))>>
  IN  concat_all(stored([ix \in 1..kDegree \div 4 |-> g(ix - 1)]), 1, <<>>)

\* FIPS 204, Algorithm 19 (BitUnpack): <<ret, out>>.
scalar_decode_signed(out, in, bits, max) ==
  IF bits = 4 THEN scalar_decode_signed_4_4(out, in)
  ELSE IF bits = 13 THEN <<1, scalar_decode_signed_13_12(in)>>
  ELSE <<1, scalar_decode_signed_20_19(in)>>

(***************************************************************************)
(* The SHAKE sponge.  Keccak is outside the modelled sources; it is stood  *)
(* in for by a small deterministic extendable-output function with the     *)
(* same interface: init, absorb (absorbing a then b is absorbing a \o b),  *)
(* squeeze (a stream read in consecutive pieces) and the one-shot hash.    *)
(* A context is [h |-> the absorbed state, pos |-> bytes squeezed so far,  *)
(* rate_bytes |-> the block size of the variant].                          *)
(***************************************************************************)
boringssl_shake128 == 128

boringssl_shake256 == 256

kAbsorbModulus == 8388593

kSqueezeModulus == 46337

BORINGSSL_keccak_init(config) ==
  [h |-> config, pos |-> 0,
   rate_bytes |-> IF config = boringssl_shake128 THEN 168 ELSE 136]

\* Absorbing the bytes in[first..last], one after the other; absorbing a
\* range is absorbing its first half and then its second.
RECURSIVE keccak_absorb_loop(_, _, _, _)
keccak_absorb_loop(h, in, first, last) ==
  IF h < 0 \/ first > last
  THEN h
  ELSE IF first = last
  THEN (h * 251 + in[first] + 1) % kAbsorbModulus
  ELSE keccak_absorb_loop(
         keccak_absorb_loop(h, in, first, (first + last) \div 2),
         in, (first + last) \div 2 + 1, last)

BORINGSSL_keccak_absorb(ctx, in) ==
  [ctx EXCEPT !.h = keccak_absorb_loop(ctx.h, in, 1, Len(in))]

\* Byte number k of the output stream of absorbed state h.
keccak_stream_byte(h, k) ==
  LET m == (h + 31 * k + 1) % kSqueezeModulus
      a == (m * m + (h \div kSqueezeModulus)) % kSqueezeModulus
      c == (a * (m + 3)) % kSqueezeModulus
  IN  (c \div 16) % 256

\* <<ctx, out>>.
BORINGSSL_keccak_squeeze(ctx, out_len) ==
  <<[ctx EXCEPT !.pos = ctx.pos + out_len],
    [i \in 1..out_len |-> keccak_stream_byte(ctx.h, ctx.pos + i - 1)]>>

BORINGSSL_keccak(out_len, in, config) ==
  LET ctx == BORINGSSL_keccak_absorb(BORINGSSL_keccak_init(config), in)
      out == BORINGSSL_keccak_squeeze(ctx, out_len)[2]
      b(i) == out[i]
  IN  stored([ix \in 1..out_len |-> b(ix)])

(***************************************************************************)
(* Expansion functions.                                                    *)
(***************************************************************************)
\* The inner loop of scalar_from_keccak_vartime over one squeezed block
\* (FIPS 204, Algorithm 14, CoeffFromThreeBytes, per group of three bytes).
RECURSIVE scalar_from_keccak_block(_, _, _)
scalar_from_keccak_block(out, block, i) ==
  IF i < 168 /\ Len(out) < kDegree
  THEN LET value == val32(or32(or32(Limbs32(block[i + 1]),
                                    shl32(Limbs32(block[i + 2]), 8)),
                               shl32(Limbs32(block[i + 3] % 128), 16)))
       IN  scalar_from_keccak_block(
             IF value < kPrime THEN Append(out, value) ELSE out, block, i + 3)
  ELSE out

RECURSIVE scalar_from_keccak_loop(_, _)
scalar_from_keccak_loop(keccak_ctx, out) ==
  IF Len(out) < kDegree
  THEN LET sq == BORINGSSL_keccak_squeeze(keccak_ctx, 168)
       IN  scalar_from_keccak_loop(sq[1],
                                   scalar_from_keccak_block(out, sq[2], 0))
  ELSE out

\* FIPS 204, Algorithm 30 (RejNTTPoly).
scalar_from_keccak_vartime(derived_seed) ==
  scalar_from_keccak_loop(
    BORINGSSL_keccak_absorb(BORINGSSL_keccak_init(boringssl_shake128),
                            derived_seed),
    <<>>)

\* CoefFromHalfByte letting the nibble 9 through.
coefficient_from_nibble_wide(nibble) ==
  IF nibble < 10 THEN <<TRUE, mod_sub(4, nibble)>> ELSE <<FALSE, 0>>

\* FIPS 204, Algorithm 15 (CoefFromHalfByte) for eta = 4: <<accepted, result>>.
coefficient_from_nibble(nibble) ==
  IF nibble < 9 THEN <<TRUE, mod_sub(4, nibble)>> ELSE <<FALSE, 0>>

RECURSIVE scalar_uniform_block(_, _, _)
scalar_uniform_block(out, block, i) ==
  IF i < 136 /\ Len(out) < kDegree
  THEN LET t0 == coefficient_from_nibble(block[i + 1] % 16)
           t1 == coefficient_from_nibble(block[i + 1] \div 16)
           out0 == IF t0[1] THEN Append(out, t0[2]) ELSE out
           out1 == IF Len(out0) < kDegree /\ t1[1]
                   THEN Append(out0, t1[2]) ELSE out0
       IN  scalar_uniform_block(out1, block, i + 1)
  ELSE out

RECURSIVE scalar_uniform_loop(_, _)
scalar_uniform_loop(keccak_ctx, out) ==
  IF Len(out) < kDegree
  THEN LET sq == BORINGSSL_keccak_squeeze(keccak_ctx, 136)
       IN  scalar_uniform_loop(sq[1], scalar_uniform_block(out, sq[2], 0))
  ELSE out

\* FIPS 204, Algorithm 31 (RejBoundedPoly).
scalar_uniform(derived_seed) ==
  scalar_uniform_loop(
    BORINGSSL_keccak_absorb(BORINGSSL_keccak_init(boringssl_shake256),
                            derived_seed),
    <<>>)

\* FIPS 204, Algorithm 34 (ExpandMask), a single step.
scalar_sample_mask(derived_seed) ==
  scalar_decode_signed_20_19(
    BORINGSSL_keccak((20 * kDegree) \div 8, derived_seed, boringssl_shake256))

\* uint64_t signs: CRYPTO_load_u64_le of the first eight bytes, and signs >> 1.
load_u64_le(block) ==
  <<block[1] + 256 * block[2], block[3] + 256 * block[4],
    block[5] + 256 * block[6], block[7] + 256 * block[8]>>

shr64_1(x) ==
  <<(x[1] \div 2) + (x[2] % 2) * 32768, (x[2] \div 2) + (x[3] % 2) * 32768,
    (x[3] \div 2) + (x[4] % 2) * 32768, x[4] \div 2>>

\* The inner for (;;) of SampleInBall: draws bytes, squeezing a new block when
\* the current one is used up, until one is at most i:
\* <<keccak_ctx, block, offset, byte>>.  The bytes of a block are drawn in
\* order, so the draw that ends the loop is the first byte of the rest of the
\* block that is at most i, and a block without one is followed by the next.
RECURSIVE sample_in_ball_draw(_, _, _, _)
sample_in_ball_draw(keccak_ctx, block, offset, i) ==
  LET accepted == {k \in (offset + 1)..136 : block[k] <= i}
      first == CHOOSE k \in accepted : \A m \in accepted : k <= m
  IN  IF accepted # {}
      THEN <<keccak_ctx, block, first, block[first]>>
      ELSE LET sq == BORINGSSL_keccak_squeeze(keccak_ctx, 136)
           IN  sample_in_ball_draw(sq[1], sq[2], 0, i)

\* A pass that writes out->c[byte] and leaves out->c[i] as it is.
sample_in_ball_step_unmoved(st) ==
  LET d == sample_in_ball_draw(st.keccak_ctx, st.block, st.offset, st.i)
  IN  [out |-> [st.out EXCEPT ![d[4] + 1] = mod_sub(1, 2 * (st.signs[1] % 2))],
       keccak_ctx |-> d[1], block |-> d[2], offset |-> d[3],
       signs |-> shr64_1(st.signs), i |-> st.i + 1]

\* One pass of the for loop over i: the draw, out->c[i] = out->c[byte],
\* out->c[byte] = mod_sub(1, 2 * (signs & 1)) and signs >>= 1.
sample_in_ball_step(st) ==
  LET d == sample_in_ball_draw(st.keccak_ctx, st.block, st.offset, st.i)
      byte == d[4]
      moved == [st.out EXCEPT ![st.i + 1] = st.out[byte + 1]]
  IN  [out |-> [moved EXCEPT ![byte + 1] = mod_sub(1, 2 * (st.signs[1] % 2))],
       keccak_ctx |-> d[1], block |-> d[2], offset |-> d[3],
       signs |-> shr64_1(st.signs), i |-> st.i + 1]

RECURSIVE sample_in_ball_loop(_)
sample_in_ball_loop(st) ==
  IF Len(st.out) = kDegree /\ st.i < kDegree
  THEN sample_in_ball_loop(sample_in_ball_step(st))
  ELSE st.out

\* The state before the first pass: the first block squeezed, signs loaded
\* from its first eight bytes, offset 8 and out zeroed.
sample_in_ball_start(seed, len, tau_) ==
  LET sq == BORINGSSL_keccak_squeeze(
              BORINGSSL_keccak_absorb(
                BORINGSSL_keccak_init(boringssl_shake256),
                SubSeq(seed, 1, len)),
              136)
  IN  [out |-> scalar_zero, keccak_ctx |-> sq[1], block |-> sq[2],
       offset |-> 8, signs |-> load_u64_le(sq[2]), i |-> kDegree - tau_]

\* FIPS 204, Algorithm 29 (SampleInBall).
scalar_sample_in_ball_vartime(seed, len, tau_) ==
  sample_in_ball_loop(sample_in_ball_start(seed, len, tau_))

\* FIPS 204, Algorithm 32 (ExpandA).
matrix_expand(rho) ==
  LET row(i) == LET e(j) == scalar_from_keccak_vartime(rho \o <<j - 1, i - 1>>)
                IN  stored([ix \in 1..L |-> e(ix)])
  IN  stored([ix \in 1..K |-> row(ix)])

\* FIPS 204, Algorithm 33 (ExpandS): <<s1, s2>>.
vector_expand_short(sigma) ==
  LET e1(i) == scalar_uniform(sigma \o <<i - 1, 0>>)
      e2(i) == scalar_uniform(sigma \o <<L + i - 1, 0>>)
  IN  <<stored([ix \in 1..L |-> e1(ix)]), stored([ix \in 1..K |-> e2(ix)])>>

\* FIPS 204, Algorithm 34 (ExpandMask).
vector_expand_mask(seed, kappa) ==
  LET e(i) == LET index == kappa + i - 1
              IN  scalar_sample_mask(
                    seed \o <<index % 256, (index \div 256) % 256>>)
  IN  stored([ix \in 1..L |-> e(ix)])

(***************************************************************************)
(* Encoding.                                                               *)
(***************************************************************************)
\* FIPS 204, Algorithm 16 (SimpleBitPack) of a whole vector.
vector_encode(a, bits) ==
  LET e4(i) == scalar_encode_4(a[i + 1])
      e10(i) == scalar_encode_10(a[i + 1])
  IN  IF bits = 4
      THEN concat_all(stored([ix \in 1..Len(a) |-> e4(ix - 1)]), 1, <<>>)
      ELSE concat_all(stored([ix \in 1..Len(a) |-> e10(ix - 1)]), 1, <<>>)

\* FIPS 204, Algorithm 18 (SimpleBitUnpack) of a vector<X>.
vector_decode_10(X, in) ==
  LET w == (10 * kDegree) \div 8
      e(i) == scalar_decode_10(SubSeq(in, (i - 1) * w + 1, i * w))
  IN  stored([ix \in 1..X |-> e(ix)])

\* FIPS 204, Algorithm 17 (BitPack) of a whole vector.
vector_encode_signed(a, bits, max) ==
  LET e(i) == scalar_encode_signed(a[i + 1], bits, max)
  IN  concat_all(stored([ix \in 1..Len(a) |-> e(ix - 1)]), 1, <<>>)

\* FIPS 204, Algorithm 19 (BitUnpack) of a whole vector, written in place and
\* stopping at the first scalar that is refused: <<ret, out>>.
RECURSIVE vector_decode_signed_loop(_, _, _, _, _)
vector_decode_signed_loop(out, in, bits, max, i) ==
  IF i < Len(out)
  THEN LET w == (bits * kDegree) \div 8
           decoded(r) ==
             IF r[1] = 0
             THEN <<0, [out EXCEPT ![i + 1] = r[2]]>>
             ELSE vector_decode_signed_loop([out EXCEPT ![i + 1] = r[2]],
                                            in, bits, max, i + 1)
       IN  decoded(scalar_decode_signed(out[i + 1],
                                        SubSeq(in, i * w + 1, (i + 1) * w),
                                        bits, max))
  ELSE <<1, out>>

vector_decode_signed(out, in, bits, max) ==
  vector_decode_signed_loop(out, in, bits, max, 0)

\* FIPS 204, Algorithm 28 (w1Encode).
w1_encode(w1) == vector_encode(w1, 4)

\* What a buffer or a field holds that nothing has written yet.
kUnwritten == <<>>

\* What hint_bit_pack leaves when BSSL_CHECK(index < omega) aborts the process.
kAborted == <<-1>>

\* The inner loop of hint_bit_pack over the coefficients of row i:
\* <<out, index>>, out being kAborted when the check fails.
RECURSIVE hint_bit_pack_row(_, _, _, _, _)
hint_bit_pack_row(out, h, i, index, j) ==
  IF Len(out) = omega + K /\ j < kDegree
  THEN IF h[i + 1][j + 1] # 0
       THEN IF ~(index < omega)
            THEN <<kAborted, index>>
            ELSE hint_bit_pack_row([out EXCEPT ![index + 1] = j], h, i,
                                   index + 1, j + 1)
       ELSE hint_bit_pack_row(out, h, i, index, j + 1)
  ELSE <<out, index>>

\* The outer loop, which writes the limit byte of a row after the row.
RECURSIVE hint_bit_pack_rows(_, _, _, _)
hint_bit_pack_rows(out, h, index, i) ==
  IF Len(out) = omega + K /\ i < K
  THEN LET row(r) ==
             IF r[1] = kAborted
             THEN kAborted
             ELSE hint_bit_pack_rows([r[1] EXCEPT ![omega + i + 1] = r[2]],
                                     h, r[2], i + 1)
       IN  row(hint_bit_pack_row(out, h, i, index, 0))
  ELSE out

\* FIPS 204, Algorithm 20 (HintBitPack).
hint_bit_pack(h) ==
  LET z(i) == 0
  IN  hint_bit_pack_rows(stored([ix \in 1..omega + K |-> z(ix)]), h, 0, 0)

\* The while (index < limit) loop of hint_bit_unpack for row i:
\* <<ret, h, index>>.  static_assert(kDegree == 256) makes every byte an
\* index of a coefficient; in a ring of smaller degree a byte that is not one
\* is refused.
\* The loop with byte < last as its test, which lets an index repeat.
RECURSIVE hint_bit_unpack_row_repeating(_, _, _, _, _, _)
hint_bit_unpack_row_repeating(h, in, i, index, limit, last) ==
  IF Len(h) = K /\ index < limit
  THEN LET byte == in[index + 1]
       IN  IF (last >= 0 /\ byte < last) \/ byte >= kDegree
           THEN <<0, h, index + 1>>
           ELSE hint_bit_unpack_row_repeating(
                  [h EXCEPT ![i + 1][byte + 1] = 1],
                  in, i, index + 1, limit, byte)
  ELSE <<1, h, index>>

RECURSIVE hint_bit_unpack_row(_, _, _, _, _, _)
hint_bit_unpack_row(h, in, i, index, limit, last) ==
  IF Len(h) = K /\ index < limit
  THEN LET byte == in[index + 1]
       IN  IF (last >= 0 /\ byte <= last) \/ byte >= kDegree
           THEN <<0, h, index + 1>>
           ELSE hint_bit_unpack_row([h EXCEPT ![i + 1][byte + 1] = 1],
                                    in, i, index + 1, limit, byte)
  ELSE <<1, h, index>>

RECURSIVE hint_bit_unpack_rows(_, _, _, _)
hint_bit_unpack_rows(h, in, i, index) ==
  IF i < K
  THEN LET row(r) ==
             IF r[1] = 0
             THEN r
             ELSE hint_bit_unpack_rows(r[2], in, i + 1, r[3])
           rows(limit) ==
             IF limit < index \/ limit > omega
             THEN <<0, h, index>>
             ELSE row(hint_bit_unpack_row(h, in, i, index, limit, -1))
       IN  rows(in[omega + i + 1])
  ELSE <<1, h, index>>

\* The test of the unused bytes left out.
hint_bit_unpack_tail_skipped(in, index) == 1

RECURSIVE hint_bit_unpack_tail(_, _)
hint_bit_unpack_tail(in, index) ==
  IF index < omega
  THEN IF in[index + 1] # 0 THEN 0 ELSE hint_bit_unpack_tail(in, index + 1)
  ELSE 1

\* HintBitUnpack with the test of the unused bytes starting at the first
\* byte instead of at the last limit.
hint_bit_unpack_tail_from_start(in) ==
  LET tail(r) ==
        IF r[1] = 0
        THEN <<0, r[2]>>
        ELSE <<hint_bit_unpack_tail(in, 0), r[2]>>
  IN  tail(hint_bit_unpack_rows(vector_zero(K), in, 0, 0))

\* FIPS 204, Algorithm 21 (HintBitUnpack): <<ret, h>>.
hint_bit_unpack(in) ==
  LET tail(r) ==
        IF r[1] = 0
        THEN <<0, r[2]>>
        ELSE <<hint_bit_unpack_tail(in, r[3]), r[2]>>
  IN  tail(hint_bit_unpack_rows(vector_zero(K), in, 0, 0))

(***************************************************************************)
(* Keys and signatures.  A public_key is [rho, t1, public_key_hash], a     *)
(* private_key [rho, k, public_key_hash, s1, s2, t0] and a signature       *)
(* [c_tilde, z, h].  A parser writes the structure it is given in place    *)
(* and returns <<ret, structure>>: what it wrote before refusing stays.    *)
(***************************************************************************)
\* FIPS 204, Algorithm 22 (pkEncode).
mldsa_marshal_public_key(pub) == pub.rho \o vector_encode(pub.t1, 10)

\* A parser in progress is <<ret, structure, bytes read>>: the conjuncts of
\* an && chain run in order, each one reading from where the one before
\* stopped, and none runs after one that failed.
\* CBS_copy_bytes into a field of the structure.
CBS_copy_bytes(st, in, field, len) ==
  IF st[1] = 0 \/ Len(in) - st[3] < len
  THEN <<0, st[2], st[3]>>
  ELSE <<1, [st[2] EXCEPT ![field] = SubSeq(in, st[3] + 1, st[3] + len)],
         st[3] + len>>

\* What a decoder that returned d = <<ret, value>> leaves of the structure.
CBS_decoded(st, field, d, read) ==
  <<d[1], [st[2] EXCEPT ![field] = d[2]], read>>

\* CBS_get_bytes of len bytes, then vector_decode_signed of them.
CBS_decode_signed(st, in, field, len, bits, max) ==
  IF st[1] = 0 \/ Len(in) - st[3] < len
  THEN <<0, st[2], st[3]>>
  ELSE CBS_decoded(st, field,
                   vector_decode_signed(st[2][field],
                                        SubSeq(in, st[3] + 1, st[3] + len),
                                        bits, max),
                   st[3] + len)

\* CBS_get_bytes of the hint bytes, then hint_bit_unpack of them.
CBS_hint_bit_unpack(st, in, field) ==
  IF st[1] = 0 \/ Len(in) - st[3] < omega + K
  THEN <<0, st[2], st[3]>>
  ELSE CBS_decoded(st, field,
                   hint_bit_unpack(SubSeq(in, st[3] + 1, st[3] + omega + K)),
                   st[3] + omega + K)

\* CBS_len(in) once the parser is done: <<ret, structure, bytes left>>.
\* The bytes left over counted as none.
CBS_len_ignored(st, in) == <<st[1], st[2], 0>>

CBS_len(st, in) == <<st[1], st[2], Len(in) - st[3]>>

\* FIPS 204, Algorithm 23 (pkDecode).
mldsa_parse_public_key(pub, in) ==
  LET t1_len == ((10 * kDegree) \div 8) * K
      t1(st) ==
        IF st[1] = 0 \/ Len(in) - kRhoBytes < t1_len
           \/ Len(in) - kRhoBytes - t1_len # 0
        THEN <<0, st[2]>>
        ELSE <<1, [st[2] EXCEPT
                     !.t1 = vector_decode_10(
                              K, SubSeq(in, kRhoBytes + 1, Len(in))),
                     !.public_key_hash =
                        BORINGSSL_keccak(kTrBytes, in, boringssl_shake256)]>>
  IN  t1(CBS_copy_bytes(<<1, pub, 0>>, in, "rho", kRhoBytes))

\* FIPS 204, Algorithm 24 (skEncode).
mldsa_marshal_private_key(priv) ==
  priv.rho \o priv.k \o priv.public_key_hash
    \o vector_encode_signed(priv.s1, plus_minus_eta_bitlen, eta)
    \o vector_encode_signed(priv.s2, plus_minus_eta_bitlen, eta)
    \o vector_encode_signed(priv.t0, 13, 2 ^ 12)

\* FIPS 204, Algorithm 25 (skDecode): <<ret, priv, bytes left in the input>>.
mldsa_parse_private_key(priv, in) ==
  LET scalar_bytes == (kDegree * plus_minus_eta_bitlen + 7) \div 8
      t0_bytes_len == ((13 * kDegree) \div 8) * K
      rho(st) == CBS_copy_bytes(st, in, "rho", kRhoBytes)
      k(st) == CBS_copy_bytes(st, in, "k", kKBytes)
      tr(st) == CBS_copy_bytes(st, in, "public_key_hash", kTrBytes)
      s1(st) == CBS_decode_signed(st, in, "s1", scalar_bytes * L,
                                  plus_minus_eta_bitlen, eta)
      s2(st) == CBS_decode_signed(st, in, "s2", scalar_bytes * K,
                                  plus_minus_eta_bitlen, eta)
      t0(st) == CBS_decode_signed(st, in, "t0", t0_bytes_len, 13, 2 ^ 12)
  IN  CBS_len(t0(s2(s1(tr(k(rho(<<1, priv, 0>>)))))), in)

\* FIPS 204, Algorithm 26 (sigEncode).
mldsa_marshal_signature(sign) ==
  sign.c_tilde \o vector_encode_signed(sign.z, 20, 2 ^ 19)
    \o hint_bit_pack(sign.h)

\* FIPS 204, Algorithm 27 (sigDecode): <<ret, sign, bytes left in the input>>.
mldsa_parse_signature(sign, in) ==
  LET c_tilde(st) == CBS_copy_bytes(st, in, "c_tilde", 2 * lambda_bytes)
      z(st) == CBS_decode_signed(st, in, "z", ((20 * kDegree) \div 8) * L,
                                 20, 2 ^ 19)
      h(st) == CBS_hint_bit_unpack(st, in, "h")
  IN  CBS_len(h(z(c_tilde(<<1, sign, 0>>))), in)

(***************************************************************************)
(* Key generation.  OPENSSL_malloc may return NULL: malloc_ok is the       *)
(* outcome of the allocation of the working values.                        *)
(***************************************************************************)
\* The seed followed by L and K, the other order.
augmented_entropy_swapped(entropy) ==
  SubSeq(entropy, 1, MLDSA_SEED_BYTES) \o <<L, K>>

\* uint8_t augmented_entropy[MLDSA_SEED_BYTES + 2]: the seed, then K and L.
augmented_entropy(entropy) == SubSeq(entropy, 1, MLDSA_SEED_BYTES) \o <<K, L>>

\* t = NTT^-1(A * NTT(s1)) + s2, the part that key generation and
\* mldsa_public_from_private share; a_ntt, s1_ntt and t are the fields of
\* values_st, written one statement after the other.
compute_t(rho, s1, s2) ==
  LET a_ntt(v) == [v EXCEPT !.a_ntt = matrix_expand(rho)]
      s1_ntt(v) == [v EXCEPT !.s1_ntt = vector_ntt(s1)]
      mult(v) == [v EXCEPT !.t = matrix_mult(v.a_ntt, v.s1_ntt)]
      inverse_ntt(v) == [v EXCEPT !.t = vector_inverse_ntt(v.t)]
      add(v) == [v EXCEPT !.t = vector_add(v.t, s2)]
  IN  add(inverse_ntt(mult(s1_ntt(a_ntt(
        [a_ntt |-> kUnwritten, s1_ntt |-> kUnwritten,
         t |-> kUnwritten]))))).t

\* FIPS 204, Algorithm 6 (ML-DSA.KeyGen_internal):
\* [ret, out_encoded_public_key, priv, hashed], hashed being the bytes given
\* to the hash that expands the seed (none when the call returns before it).
mldsa_generate_key_external_entropy(out_encoded_public_key, priv, entropy, malloc_ok) ==
  LET seeded(expanded_seed) ==
        [pub |-> [rho |-> SubSeq(expanded_seed, 1, kRhoBytes),
                  t1 |-> kUnwritten],
         t |-> kUnwritten,
         sigma |-> SubSeq(expanded_seed, kRhoBytes + 1,
                          kRhoBytes + kSigmaBytes),
         priv |-> [priv EXCEPT
                     !.rho = SubSeq(expanded_seed, 1, kRhoBytes),
                     !.k = SubSeq(expanded_seed, kRhoBytes + kSigmaBytes + 1,
                                  kRhoBytes + kSigmaBytes + kKBytes)]]
      short(v, s) == [v EXCEPT !.priv.s1 = s[1], !.priv.s2 = s[2]]
      expand_short(v) == short(v, vector_expand_short(v.sigma))
      rounded(v, t1t0) == [v EXCEPT !.pub.t1 = t1t0[1], !.priv.t0 = t1t0[2]]
      t(v) == [v EXCEPT !.t = compute_t(v.pub.rho, v.priv.s1, v.priv.s2)]
      t1_t0(v) == rounded(v, vector_power2_round(v.t))
      hash(v, encoded) ==
        [ret |-> 1,
         out_encoded_public_key |-> encoded,
         priv |-> [v.priv EXCEPT
                     !.public_key_hash =
                        BORINGSSL_keccak(kTrBytes, encoded,
                                         boringssl_shake256)],
         hashed |-> augmented_entropy(entropy)]
      marshal(v) == hash(v, mldsa_marshal_public_key(v.pub))
  IN  IF ~malloc_ok
      THEN [ret |-> 0, out_encoded_public_key |-> out_encoded_public_key,
            priv |-> priv, hashed |-> <<>>]
      ELSE marshal(t1_t0(t(expand_short(seeded(
             BORINGSSL_keccak(kRhoBytes + kSigmaBytes + kKBytes,
                              augmented_entropy(entropy),
                              boringssl_shake256))))))

\* mldsa_public_from_private without the copy of rho into the public key.
mldsa_public_from_private_stale_rho(pub, priv, malloc_ok) ==
  LET rounded(t1t0) ==
        [ret |-> 1,
         pub |-> [rho |-> pub.rho,
                  public_key_hash |-> priv.public_key_hash,
                  t1 |-> t1t0[1]]]
      t1_t0(t) == rounded(vector_power2_round(t))
  IN  IF ~malloc_ok
      THEN [ret |-> 0, pub |-> pub]
      ELSE t1_t0(compute_t(priv.rho, priv.s1, priv.s2))

\* [ret, pub].
mldsa_public_from_private(pub, priv, malloc_ok) ==
  LET rounded(t1t0) ==
        [ret |-> 1,
         pub |-> [rho |-> priv.rho,
                  public_key_hash |-> priv.public_key_hash,
                  t1 |-> t1t0[1]]]
      t1_t0(t) == rounded(vector_power2_round(t))
  IN  IF ~malloc_ok
      THEN [ret |-> 0, pub |-> pub]
      ELSE t1_t0(compute_t(priv.rho, priv.s1, priv.s2))

(***************************************************************************)
(* Signing.  The working values of one call are the record values: sign    *)
(* (the signature being built), s1_ntt, s2_ntt, t0_ntt, a_ntt, y, w, w1,   *)
(* cs1, cs2.  y_ntt lives in cs1, and r0 and then ct0 live in w1, as in    *)
(* the code.  A field that nothing has written yet holds kUnwritten.       *)
(***************************************************************************)
\* The len bytes that a squeeze wrote, as the array they are in.
squeezed(out, len) == stored([ix \in 1..len |-> out[ix]])

\* mu: tr, the context prefix, the context and the message, absorbed in turn.
compute_mu(public_key_hash, context_prefix, context, msg) ==
  BORINGSSL_keccak_squeeze(
    BORINGSSL_keccak_absorb(
      BORINGSSL_keccak_absorb(
        BORINGSSL_keccak_absorb(
          BORINGSSL_keccak_absorb(BORINGSSL_keccak_init(boringssl_shake256),
                                  public_key_hash),
          context_prefix),
        context),
      msg),
    kMuBytes)[2]

compute_rho_prime(k, randomizer, mu) ==
  BORINGSSL_keccak_squeeze(
    BORINGSSL_keccak_absorb(
      BORINGSSL_keccak_absorb(
        BORINGSSL_keccak_absorb(BORINGSSL_keccak_init(boringssl_shake256), k),
        SubSeq(randomizer, 1, MLDSA65_SIGNATURE_RANDOMIZER_BYTES)),
      mu),
    kRhoPrimeBytes)[2]

\* c_tilde: mu and the encoded w1, absorbed in turn.
compute_c_tilde(mu, w1_encoded) ==
  BORINGSSL_keccak_squeeze(
    BORINGSSL_keccak_absorb(
      BORINGSSL_keccak_absorb(BORINGSSL_keccak_init(boringssl_shake256), mu),
      w1_encoded),
    2 * lambda_bytes)[2]

\* mldsa_sign_internal up to the loop: [ret, mu, rho_prime, values]; ret = 0
\* is the return on a failed allocation, which comes after the two hashes.
mldsa_sign_setup(priv, msg, context_prefix, context, randomizer, malloc_ok) ==
  LET setup(mu, rho_prime) ==
        [ret |-> IF malloc_ok THEN 1 ELSE 0,
         mu |-> mu,
         rho_prime |-> rho_prime,
         values |->
           IF malloc_ok
           THEN [sign |-> [c_tilde |-> kUnwritten, z |-> kUnwritten,
                           h |-> kUnwritten],
                 s1_ntt |-> vector_ntt(priv.s1),
                 s2_ntt |-> vector_ntt(priv.s2),
                 t0_ntt |-> vector_ntt(priv.t0),
                 a_ntt |-> matrix_expand(priv.rho),
                 y |-> kUnwritten, w |-> kUnwritten, w1 |-> kUnwritten,
                 cs1 |-> kUnwritten, cs2 |-> kUnwritten]
           ELSE kUnwritten]
      hashed(mu) ==
        setup(mu, squeezed(compute_rho_prime(priv.k, randomizer, mu),
                           kRhoPrimeBytes))
  IN  hashed(squeezed(compute_mu(priv.public_key_hash, context_prefix,
                                 context, msg),
                      kMuBytes))

\* The first test with > in place of >=: a slip that the bound checks have to
\* notice.
first_check_rejects_above(z_max, r0_max) ==
  z_max > gamma1 - beta \/ r0_max > kGamma2 - beta

\* The two tests of the loop that end a pass with continue.
first_check_rejects(z_max, r0_max) ==
  z_max >= gamma1 - beta \/ r0_max >= kGamma2 - beta

second_check_rejects(ct0_max, h_ones) ==
  ct0_max >= kGamma2 \/ omega < h_ones

\* One pass through the body of the for (size_t kappa = 0;; kappa += L) loop:
\* [values, z_max, r0_max, ct0_max, h_ones, rejected, out].  rejected is 1 or
\* 2 for the first or the second continue and 0 when the pass reaches the
\* return; ct0_max and h_ones are -1 when the pass does not compute them.
mldsa_sign_iteration(values, mu, rho_prime, kappa) ==
  LET pass(v, z_max, r0_max, ct0_max, h_ones, rejected) ==
        [values |-> v, z_max |-> z_max, r0_max |-> r0_max,
         ct0_max |-> ct0_max, h_ones |-> h_ones, rejected |-> rejected,
         out |-> IF rejected = 0
                 THEN mldsa_marshal_signature(v.sign) ELSE kUnwritten]
      second_check(v, z_max, r0_max, ct0_max, h_ones) ==
        pass(v, z_max, r0_max, ct0_max, h_ones,
             IF second_check_rejects(ct0_max, h_ones) THEN 2 ELSE 0)
      h(v) ==
        [v EXCEPT !.sign.h = vector_make_hint(v.w1, v.cs2, v.w)]
      ct0_inverse(v) == [v EXCEPT !.w1 = vector_inverse_ntt(v.w1)]
      ct0(v, c_ntt) == [v EXCEPT !.w1 = vector_mult_scalar(v.t0_ntt, c_ntt)]
      second(v, z_max, r0_max) ==
        second_check(v, z_max, r0_max, vector_max(v.w1),
                     vector_count_ones(v.sign.h))
      first_check(v, c_ntt, z_max, r0_max) ==
        IF first_check_rejects(z_max, r0_max)
        THEN pass(v, z_max, r0_max, -1, -1, 1)
        ELSE second(h(ct0_inverse(ct0(v, c_ntt))), z_max, r0_max)
      first(v, c_ntt) ==
        first_check(v, c_ntt, vector_max(v.sign.z), vector_max_signed(v.w1))
      r0_low_bits(v) == [v EXCEPT !.w1 = vector_low_bits(v.w1)]
      r0(v) == r0_low_bits([v EXCEPT !.w1 = vector_sub(v.w, v.cs2)])
      z(v) == [v EXCEPT !.sign.z = vector_add(v.y, v.cs1)]
      cs2_inverse(v) == [v EXCEPT !.cs2 = vector_inverse_ntt(v.cs2)]
      cs2(v, c_ntt) == [v EXCEPT !.cs2 = vector_mult_scalar(v.s2_ntt, c_ntt)]
      cs1_inverse(v) == [v EXCEPT !.cs1 = vector_inverse_ntt(v.cs1)]
      cs1(v, c_ntt) == [v EXCEPT !.cs1 = vector_mult_scalar(v.s1_ntt, c_ntt)]
      challenged(v, c_ntt) ==
        first(r0(z(cs2_inverse(cs2(cs1_inverse(cs1(v, c_ntt)), c_ntt)))),
              c_ntt)
      challenge(v) ==
        challenged(v, scalar_ntt(
                        scalar_sample_in_ball_vartime(
                          v.sign.c_tilde, 2 * lambda_bytes, tau)))
      c_tilde_hash(v, w1_encoded) ==
        [v EXCEPT !.sign.c_tilde =
                     squeezed(compute_c_tilde(mu, w1_encoded),
                              2 * lambda_bytes)]
      c_tilde(v) == c_tilde_hash(v, w1_encode(v.w1))
      w1(v) == [v EXCEPT !.w1 = vector_high_bits(v.w)]
      w_inverse(v) == [v EXCEPT !.w = vector_inverse_ntt(v.w)]
      w(v) == w_inverse([v EXCEPT !.w = matrix_mult(v.a_ntt, v.cs1)])
      y_ntt(v) == [v EXCEPT !.cs1 = vector_ntt(v.y)]
      expand_mask(v) == [v EXCEPT !.y = vector_expand_mask(rho_prime, kappa)]
  IN  challenge(c_tilde(w1(w(y_ntt(expand_mask(values))))))

(***************************************************************************)
(* Verification.                                                           *)
(***************************************************************************)
\* The return expression without the test of z_max: a slip that the
\* acceptance condition has to notice.
verify_accepts_challenge_only(z_max, c_tilde, sign_c_tilde) ==
  c_tilde = sign_c_tilde

\* The return expression of mldsa_verify_internal.
verify_accepts(z_max, c_tilde, sign_c_tilde) ==
  z_max < gamma1 - beta /\ c_tilde = sign_c_tilde

\* FIPS 204, Algorithm 8 (ML-DSA.Verify_internal): [ret, parsed, z_max,
\* c_tilde, sign], the return value and, for a signature that parsed, the
\* locals z_max and c_tilde at the return; parsed is what
\* mldsa_parse_signature returned, or -1 when the allocation failed first.
mldsa_verify_internal(pub, encoded_signature, msg, context_prefix, context, malloc_ok) ==
  LET returned(v, z_max) ==
        [ret |-> IF verify_accepts(z_max, v.c_tilde, v.sign.c_tilde)
                 THEN 1 ELSE 0,
         parsed |-> 1, z_max |-> z_max, c_tilde |-> v.c_tilde,
         sign |-> v.sign]
      z_max(v) == returned(v, vector_max(v.sign.z))
      c_tilde(v) ==
        [v EXCEPT !.c_tilde =
                     squeezed(compute_c_tilde(v.mu, v.w1_encoded),
                              2 * lambda_bytes)]
      encode(v) == [v EXCEPT !.w1_encoded = w1_encode(v.az_ntt)]
      use_hint(v) ==
        [v EXCEPT !.az_ntt = vector_use_hint_vartime(v.sign.h, v.az_ntt)]
      w1_inverse(v) == [v EXCEPT !.az_ntt = vector_inverse_ntt(v.az_ntt)]
      w1(v) == [v EXCEPT !.az_ntt = vector_sub(v.az_ntt, v.ct1_ntt)]
      ct1_mult(v) ==
        [v EXCEPT !.ct1_ntt = vector_mult_scalar(v.ct1_ntt, v.c_ntt)]
      ct1_ntt(v) == [v EXCEPT !.ct1_ntt = vector_ntt(v.ct1_ntt)]
      ct1(v) == [v EXCEPT !.ct1_ntt = vector_scale_power2_round(pub.t1)]
      az_ntt(v) == [v EXCEPT !.az_ntt = matrix_mult(v.a_ntt, v.z_ntt)]
      z_ntt(v) == [v EXCEPT !.z_ntt = vector_ntt(v.sign.z)]
      c_ntt(v) == [v EXCEPT !.c_ntt = scalar_ntt(v.c_ntt)]
      sample(v) ==
        [v EXCEPT !.c_ntt =
                     scalar_sample_in_ball_vartime(v.sign.c_tilde,
                                                   2 * lambda_bytes, tau)]
      mu(v) ==
        [v EXCEPT !.mu =
                     squeezed(compute_mu(pub.public_key_hash, context_prefix,
                                         context, msg),
                              kMuBytes)]
      a_ntt(v) == [v EXCEPT !.a_ntt = matrix_expand(pub.rho)]
      parsed(p) ==
        IF p[1] = 0
        THEN [ret |-> 0, parsed |-> 0, z_max |-> -1, c_tilde |-> kUnwritten,
              sign |-> p[2]]
        ELSE z_max(c_tilde(encode(use_hint(w1_inverse(w1(ct1_mult(ct1_ntt(
               ct1(az_ntt(z_ntt(c_ntt(sample(mu(a_ntt(
                 [sign |-> p[2], a_ntt |-> kUnwritten, z_ntt |-> kUnwritten,
                  az_ntt |-> kUnwritten, ct1_ntt |-> kUnwritten,
                  mu |-> kUnwritten, c_ntt |-> kUnwritten,
                  w1_encoded |-> kUnwritten,
                  c_tilde |-> kUnwritten])))))))))))))))
  IN  IF ~malloc_ok
      THEN [ret |-> 0, parsed |-> -1, z_max |-> -1, c_tilde |-> kUnwritten,
            sign |-> kUnwritten]
      ELSE parsed(mldsa_parse_signature(
                    [c_tilde |-> kUnwritten, z |-> vector_zero(L),
                     h |-> kUnwritten],
                    SubSeq(encoded_signature, 1, signature_bytes)))

(***************************************************************************)
(* The ML-DSA-65 entry points.                                             *)
(***************************************************************************)
\* MLDSA65_private_key_from_seed refusing only the seeds that are too short.
MLDSA65_private_key_from_seed_short(out_private_key, seed, malloc_ok) ==
  IF Len(seed) < MLDSA_SEED_BYTES
  THEN [ret |-> 0, priv |-> out_private_key, hashed |-> <<>>]
  ELSE LET generated(r) ==
             [ret |-> r.ret, priv |-> r.priv, hashed |-> r.hashed]
       IN  generated(mldsa_generate_key_external_entropy(
                       kUnwritten, out_private_key, seed, malloc_ok))

\* [ret, priv, hashed].
MLDSA65_private_key_from_seed(out_private_key, seed, malloc_ok) ==
  IF Len(seed) # MLDSA_SEED_BYTES
  THEN [ret |-> 0, priv |-> out_private_key, hashed |-> <<>>]
  ELSE LET generated(r) ==
             [ret |-> r.ret, priv |-> r.priv, hashed |-> r.hashed]
       IN  generated(mldsa_generate_key_external_entropy(
                       kUnwritten, out_private_key, seed, malloc_ok))

\* <<ret, priv>>: the parse must also use up the input.
MLDSA65_parse_private_key(private_key, in) ==
  LET parsed(r) == <<IF r[1] # 0 /\ r[3] = 0 THEN 1 ELSE 0, r[2]>>
  IN  parsed(mldsa_parse_private_key(private_key, in))

\* MLDSA65_sign up to the signing loop, randomizer being what RAND_bytes
\* returns when it is called: [ret, rand_drawn, context_prefix, mu, rho_prime,
\* values].  ret = 1 stands for the loop being entered.
MLDSA65_sign_enter(private_key, msg, context, randomizer, malloc_ok) ==
  IF Len(context) > 255
  THEN [ret |-> 0, rand_drawn |-> FALSE, context_prefix |-> kUnwritten,
        mu |-> kUnwritten, rho_prime |-> kUnwritten, values |-> kUnwritten]
  ELSE LET context_prefix == <<0, Len(context) % 256>>
           entered(su) ==
             [ret |-> su.ret, rand_drawn |-> TRUE,
              context_prefix |-> context_prefix, mu |-> su.mu,
              rho_prime |-> su.rho_prime, values |-> su.values]
       IN  entered(mldsa_sign_setup(private_key, msg, context_prefix,
                                    context, randomizer, malloc_ok))

\* FIPS 204, Algorithm 3 (ML-DSA.Verify): the record of
\* mldsa_verify_internal and the context prefix handed to it (kUnwritten
\* when the lengths are refused, before anything is computed).
MLDSA65_verify(public_key, signature, msg, context, malloc_ok) ==
  IF Len(context) > 255 \/ Len(signature) # signature_bytes
  THEN [ret |-> 0, parsed |-> -1, z_max |-> -1, c_tilde |-> kUnwritten,
        sign |-> kUnwritten, context_prefix |-> kUnwritten]
  ELSE LET context_prefix == <<0, Len(context) % 256>>
           verified(v) ==
             [ret |-> v.ret, parsed |-> v.parsed, z_max |-> v.z_max,
              c_tilde |-> v.c_tilde, sign |-> v.sign,
              context_prefix |-> context_prefix]
       IN  verified(mldsa_verify_internal(public_key, signature, msg,
                                          context_prefix, context,
                                          malloc_ok))

(***************************************************************************)
(* The state machine: a caller of the library.                             *)
(*   pc                 where the caller is                                *)
(*   key, key2          two callers' key objects, each the private key,    *)
(*                      the encoded public key buffer, the seed given, the *)
(*                      return value and the bytes given to the seed hash  *)
(*   public_key         the public key object and the return value of the  *)
(*                      call that last wrote it                            *)
(*   sign_call          the arguments and the results of MLDSA65_sign      *)
(*   frame              mu, rho_prime, values and kappa of the signing     *)
(*                      loop                                               *)
(*   iteration          what the last pass through the loop measured       *)
(*   encoded_signature  the caller's signature buffer                      *)
(*   verify_call        the arguments and the results of MLDSA65_verify    *)
(*   loop               the signing loop on its own, the norms of each     *)
(*                      pass being inputs                                  *)
(*   hint               a hint vector, its packing and what unpacking the  *)
(*                      packing gives                                      *)
(*   scalar             a single scalar and what one of the functions on   *)
(*                      scalars wrote for it                               *)
(***************************************************************************)
VARIABLES pc, key, key2, public_key, sign_call, frame, iteration,
          encoded_signature, verify_call, loop, hint, scalar

vars == <<pc, key, key2, public_key, sign_call, frame, iteration,
          encoded_signature, verify_call, loop, hint, scalar>>

\* The variables of the smaller machines, which the caller's machine
\* leaves alone.
apart == <<loop, hint, scalar>>

\* n bytes, or n coefficients, of value b.
Fill(b, n) == [i \in 1..n |-> b]

FillVector(X, b) == [i \in 1..X |-> Fill(b, kDegree)]

\* What a caller's objects hold before the library writes them.
PriorPrivateKey(b) ==
  [rho |-> Fill(b, kRhoBytes), k |-> Fill(b, kKBytes),
   public_key_hash |-> Fill(b, kTrBytes), s1 |-> FillVector(L, b),
   s2 |-> FillVector(K, b), t0 |-> FillVector(K, b)]

PriorPublicKey(b) ==
  [rho |-> Fill(b, kRhoBytes), t1 |-> FillVector(K, b),
   public_key_hash |-> Fill(b, kTrBytes)]

PriorKey(b) ==
  [private_key |-> PriorPrivateKey(b),
   encoded_public_key |-> Fill(b, public_key_bytes),
   entropy |-> <<>>, ret |-> -1, hashed |-> <<>>, call |-> "none"]

\* The inputs the caller chooses from.
Seeds == {Fill(0, MLDSA_SEED_BYTES), Fill(1, MLDSA_SEED_BYTES)}

SeedInputs ==
  {Fill(0, MLDSA_SEED_BYTES - 1), Fill(0, MLDSA_SEED_BYTES),
   Fill(0, MLDSA_SEED_BYTES + 1)}

PublicKeyInputs(encoded) ==
  {encoded, SubSeq(encoded, 1, Len(encoded) - 1), encoded \o <<0>>,
   SubSeq(encoded, 1, kRhoBytes - 1), Fill(255, public_key_bytes)}

NoCall == [ret |-> -1]

InitCaller ==
  /\ pc = "idle"
  /\ key = PriorKey(0)
  /\ key2 = PriorKey(3)
  /\ public_key = [ret |-> -1, pub |-> PriorPublicKey(0), in |-> <<>>]
  /\ sign_call = NoCall
  /\ frame = kUnwritten
  /\ iteration = NoCall
  /\ encoded_signature = Fill(0, signature_bytes)
  /\ verify_call = NoCall

Init ==
  /\ InitCaller
  /\ loop = [pc |-> "idle"]
  /\ hint = [pc |-> "idle"]
  /\ scalar = [pc |-> "idle"]

\* The caller's variables where the caller's machine is not the one that
\* runs.
NoCaller ==
  /\ pc = "apart"
  /\ key = NoCall
  /\ key2 = NoCall
  /\ public_key = NoCall
  /\ sign_call = NoCall
  /\ frame = kUnwritten
  /\ iteration = NoCall
  /\ encoded_signature = kUnwritten
  /\ verify_call = NoCall

\* MLDSA65_generate_key_external_entropy into the caller's key object.
GenerateKey ==
  /\ pc = "idle"
  /\ \E entropy \in Seeds, malloc_ok \in BOOLEAN :
       \E r \in {mldsa_generate_key_external_entropy(
                    key.encoded_public_key, key.private_key, entropy,
                    malloc_ok)} :
           /\ key' = [private_key |-> r.priv,
                      encoded_public_key |-> r.out_encoded_public_key,
                      entropy |-> entropy, ret |-> r.ret,
                      hashed |-> r.hashed, call |-> "generate_key"]
           /\ pc' = IF r.ret = 1 THEN "generated" ELSE "failed"
  /\ UNCHANGED apart
  /\ UNCHANGED <<key2, public_key, sign_call, frame, iteration,
                 encoded_signature, verify_call>>

\* MLDSA65_private_key_from_seed into the caller's key object.
PrivateKeyFromSeed ==
  /\ pc = "idle"
  /\ \E seed \in SeedInputs, malloc_ok \in BOOLEAN :
       \E r \in {MLDSA65_private_key_from_seed(key.private_key, seed,
                                                malloc_ok)} :
           /\ key' = [key EXCEPT !.private_key = r.priv, !.entropy = seed,
                                 !.ret = r.ret, !.hashed = r.hashed,
                                 !.call = "private_key_from_seed"]
           /\ pc' = IF r.ret = 1 THEN "seeded" ELSE "failed"
  /\ UNCHANGED apart
  /\ UNCHANGED <<key2, public_key, sign_call, frame, iteration,
                 encoded_signature, verify_call>>

\* A second run of key generation, into another caller's key object.
GenerateKeyAgain ==
  /\ pc = "generated"
  /\ \E entropy \in Seeds :
       \E r \in {mldsa_generate_key_external_entropy(
                    key2.encoded_public_key, key2.private_key, entropy,
                    TRUE)} :
           key2' = [private_key |-> r.priv,
                    encoded_public_key |-> r.out_encoded_public_key,
                    entropy |-> entropy, ret |-> r.ret, hashed |-> r.hashed,
                    call |-> "generate_key"]
  /\ pc' = "regenerated"
  /\ UNCHANGED apart
  /\ UNCHANGED <<key, public_key, sign_call, frame, iteration,
                 encoded_signature, verify_call>>

\* MLDSA65_parse_public_key of bytes the caller received.
ParsePublicKey ==
  /\ pc = "generated"
  /\ \E in \in PublicKeyInputs(key.encoded_public_key) :
       \E r \in {mldsa_parse_public_key(public_key.pub, in)} :
           /\ public_key' = [ret |-> r[1], pub |-> r[2], in |-> in]
           /\ pc' = IF r[1] = 1 /\ in = key.encoded_public_key
                    THEN "keyed" ELSE "parsed"
  /\ UNCHANGED apart
  /\ UNCHANGED <<key, key2, sign_call, frame, iteration, encoded_signature,
                 verify_call>>

\* Encodings of a private key as a caller may receive them: the encoding
\* itself, with a byte too many, with a byte missing, with a nibble of 9 in
\* the second word of s1, with another tr, a few bytes only, the encodings
\* whose bytes after tr are all 0x88 or all 0 in s1 and s2 and all 0xff or
\* all 0 in t0, with a nibble of 15 in the first byte of s1, with a high
\* nibble of 9 in the last byte of s2, and with another first byte of t0.
PrivateKeyInputs(encoded) ==
  LET fixed == kRhoBytes + kKBytes + kTrBytes
      short == ((plus_minus_eta_bitlen * kDegree) \div 8) * (L + K)
      extreme(s, t) ==
        [i \in 1..Len(encoded) |->
           IF i <= fixed THEN encoded[i]
           ELSE IF i <= fixed + short THEN s ELSE t]
  IN  {encoded, encoded \o <<0>>, SubSeq(encoded, 1, Len(encoded) - 1),
       [encoded EXCEPT ![fixed + 5] = 9],
       [i \in 1..Len(encoded) |->
          IF kRhoBytes + kKBytes < i /\ i <= fixed THEN 9 ELSE encoded[i]],
       Fill(0, kRhoBytes - 1),
       extreme(136, 255), extreme(0, 0),
       [encoded EXCEPT ![fixed + 1] = 15],
       [encoded EXCEPT ![fixed + short] = 144],
       [encoded EXCEPT ![fixed + short + 1] = 255 - encoded[fixed + short + 1]]}

\* MLDSA65_parse_private_key, into the second key object, of bytes the caller
\* received.
ParsePrivateKey ==
  /\ pc = "generated"
  /\ \E in \in PrivateKeyInputs(mldsa_marshal_private_key(key.private_key)) :
       \E r \in {MLDSA65_parse_private_key(key2.private_key, in)} :
           /\ key2' = [key2 EXCEPT !.private_key = r[2], !.entropy = in,
                                   !.ret = r[1],
                                   !.call = "parse_private_key"]
           /\ pc' = IF r[1] = 1 THEN "reparsed" ELSE "failed"
  /\ UNCHANGED apart
  /\ UNCHANGED <<key, public_key, sign_call, frame, iteration,
                 encoded_signature, verify_call>>

\* MLDSA65_public_from_private of the private key the caller last obtained.
PublicFromPrivate ==
  /\ pc \in {"seeded", "reparsed"}
  /\ \E malloc_ok \in BOOLEAN :
       \E r \in {mldsa_public_from_private(
                    public_key.pub,
                    IF pc = "seeded" THEN key.private_key
                    ELSE key2.private_key,
                    malloc_ok)} :
           /\ public_key' = [ret |-> r.ret, pub |-> r.pub, in |-> <<>>]
           /\ pc' = IF r.ret = 1 THEN "derived" ELSE "failed"
  /\ UNCHANGED apart
  /\ UNCHANGED <<key, key2, sign_call, frame, iteration, encoded_signature,
                 verify_call>>

Messages == {Fill(0, 3), Fill(1, 3)}

Contexts == {<<>>, Fill(7, 255), Fill(7, 256)}

Randomizers ==
  {Fill(0, MLDSA65_SIGNATURE_RANDOMIZER_BYTES),
   Fill(2, MLDSA65_SIGNATURE_RANDOMIZER_BYTES)}

\* MLDSA65_sign, up to the signing loop.
Sign ==
  /\ pc = "keyed"
  /\ \E msg \in Messages, context \in Contexts, randomizer \in Randomizers,
        malloc_ok \in BOOLEAN :
       \E r \in {MLDSA65_sign_enter(key.private_key, msg, context,
                                     randomizer, malloc_ok)} :
           /\ sign_call' =
                [msg |-> msg, context |-> context,
                 randomizer |-> IF r.rand_drawn THEN randomizer
                                ELSE kUnwritten,
                 rand_drawn |-> r.rand_drawn,
                 context_prefix |-> r.context_prefix,
                 ret |-> IF r.ret = 1 THEN -1 ELSE 0]
           /\ frame' = IF r.ret = 1
                       THEN [mu |-> r.mu, rho_prime |-> r.rho_prime,
                             values |-> r.values, kappa |-> 0]
                       ELSE kUnwritten
           /\ pc' = IF r.ret = 1 THEN "signing" ELSE "failed"
  /\ UNCHANGED apart
  /\ UNCHANGED <<key, key2, public_key, iteration, encoded_signature,
                 verify_call>>

\* The signature that a pass refused by the first test would have led to:
\* c_tilde and z of the pass with the hint computed for them.
RefusedCandidate(values) ==
  LET c_ntt == scalar_ntt(
                 scalar_sample_in_ball_vartime(values.sign.c_tilde,
                                               2 * lambda_bytes, tau))
      ct0 == vector_inverse_ntt(vector_mult_scalar(values.t0_ntt, c_ntt))
  IN  mldsa_marshal_signature(
        [c_tilde |-> values.sign.c_tilde, z |-> values.sign.z,
         h |-> vector_make_hint(ct0, values.cs2, values.w)])

\* One pass through the signing loop of MLDSA65_sign.
SignIteration ==
  /\ pc = "signing"
  /\ \E it \in {mldsa_sign_iteration(frame.values, frame.mu,
                                      frame.rho_prime, frame.kappa)} :
         /\ iteration' =
              [ret |-> IF it.rejected = 0 THEN 1 ELSE 0,
               kappa |-> frame.kappa, rejected |-> it.rejected,
               z_max |-> it.z_max, r0_max |-> it.r0_max,
               ct0_max |-> it.ct0_max, h_ones |-> it.h_ones,
               refused |-> IF it.rejected = 1
                           THEN RefusedCandidate(it.values)
                           ELSE IF iteration.ret = -1 THEN kUnwritten
                           ELSE iteration.refused]
         /\ IF it.rejected = 0
            THEN /\ encoded_signature' = it.out
                 /\ sign_call' = [sign_call EXCEPT !.ret = 1]
                 /\ frame' = kUnwritten
                 /\ pc' = "signed"
            ELSE /\ frame' = [frame EXCEPT !.values = it.values,
                                           !.kappa = frame.kappa + L]
                 /\ UNCHANGED <<encoded_signature, sign_call>>
                 /\ pc' = "signing"
  /\ UNCHANGED apart
  /\ UNCHANGED <<key, key2, public_key, verify_call>>

\* Signatures a verifier may receive in place of sig: a byte of c_tilde
\* changed, a byte of z changed, a hint whose last limit exceeds omega, a byte
\* missing, a byte too many.
TamperedSignatures(sig) ==
  {[sig EXCEPT ![1] = (sig[1] + 1) % 256],
   [sig EXCEPT ![2 * lambda_bytes + 1] = (sig[2 * lambda_bytes + 1] + 1) % 256],
   [sig EXCEPT ![Len(sig)] = omega + 1],
   SubSeq(sig, 1, Len(sig) - 1),
   sig \o <<0>>}

\* What the verifier is asked: the signature with its message and context,
\* the signature with another message or another context, a tampered
\* signature, and the signature that a refused pass of the loop would have
\* led to.
VerifyInputs ==
  LET genuine == [signature |-> encoded_signature, msg |-> sign_call.msg,
                  context |-> sign_call.context]
  IN  {genuine}
      \cup {[genuine EXCEPT !.msg = m] : m \in Messages}
      \cup {[genuine EXCEPT !.context = c] : c \in Contexts}
      \cup {[genuine EXCEPT !.signature = t] :
              t \in TamperedSignatures(encoded_signature)}
      \cup {[genuine EXCEPT !.signature = t] :
              t \in {iteration.refused} \ {kUnwritten, kAborted}}

\* MLDSA65_verify with the public key the caller parsed.
Verify ==
  /\ pc = "signed"
  /\ \E in \in VerifyInputs, malloc_ok \in BOOLEAN :
       \E r \in {MLDSA65_verify(public_key.pub, in.signature, in.msg,
                                 in.context, malloc_ok)} :
           verify_call' =
             [signature |-> in.signature, msg |-> in.msg,
              context |-> in.context, malloc_ok |-> malloc_ok,
              ret |-> r.ret, parsed |-> r.parsed, z_max |-> r.z_max,
              c_tilde |-> r.c_tilde,
              sign |-> IF r.parsed = 1 THEN r.sign ELSE kUnwritten,
              context_prefix |-> r.context_prefix]
  /\ pc' = "verified"
  /\ UNCHANGED apart
  /\ UNCHANGED <<key, key2, public_key, sign_call, frame, iteration,
                 encoded_signature>>

Next ==
  \/ GenerateKey
  \/ PrivateKeyFromSeed
  \/ GenerateKeyAgain
  \/ ParsePublicKey
  \/ ParsePrivateKey
  \/ PublicFromPrivate
  \/ Sign
  \/ SignIteration
  \/ Verify

Spec == Init /\ [][Next]_vars

(***************************************************************************)
(* Concurrent calls that share one key pair.  Each caller has its own      *)
(* call record, frame and signature buffer: sign_call, frame,              *)
(* encoded_signature and verify_call hold one of each per caller.  A step  *)
(* of a caller is MLDSA65_sign up to the loop, one pass through the loop,  *)
(* or MLDSA65_verify of the signature the caller wrote; steps of different *)
(* callers come in any order.  key2 keeps the key as it was handed out.    *)
(***************************************************************************)
Callers == {1, 2}

\* The working memory of a call: values is allocated by the call itself
\* (OPENSSL_malloc in mldsa_sign_internal), so a call reads its own.
call_values_static(frames, caller) ==
  IF frames[1] # kUnwritten THEN frames[1] ELSE frames[caller]

call_values(frames, caller) == frames[caller]

InitShared ==
  /\ \E g \in {mldsa_generate_key_external_entropy(
                  Fill(0, public_key_bytes), PriorPrivateKey(0),
                  Fill(1, MLDSA_SEED_BYTES), TRUE)} :
       /\ key = [private_key |-> g.priv,
                 encoded_public_key |-> g.out_encoded_public_key,
                 entropy |-> Fill(1, MLDSA_SEED_BYTES), ret |-> g.ret,
                 hashed |-> g.hashed, call |-> "generate_key"]
       /\ key2 = key
       /\ \E r \in {mldsa_parse_public_key(PriorPublicKey(0),
                                            g.out_encoded_public_key)} :
            public_key = [ret |-> r[1], pub |-> r[2],
                          in |-> g.out_encoded_public_key]
  /\ pc = "shared"
  /\ sign_call = [c \in Callers |-> NoCall]
  /\ frame = [c \in Callers |-> kUnwritten]
  /\ iteration = NoCall
  /\ encoded_signature = [c \in Callers |-> kUnwritten]
  /\ verify_call = [c \in Callers |-> NoCall]
  /\ loop = [pc |-> "idle"]
  /\ hint = [pc |-> "idle"]
  /\ scalar = [pc |-> "idle"]

\* A caller enters MLDSA65_sign with the shared private key.
SharedSign ==
  /\ \E c \in Callers, msg \in Messages, randomizer \in Randomizers :
       /\ sign_call[c] = NoCall
       /\ \E r \in {MLDSA65_sign_enter(key.private_key, msg, <<>>,
                                        randomizer, TRUE)} :
            /\ sign_call' =
                 [sign_call EXCEPT
                    ![c] = [msg |-> msg, context |-> <<>>,
                            randomizer |-> randomizer, rand_drawn |-> TRUE,
                            context_prefix |-> r.context_prefix,
                            ret |-> -1]]
            /\ frame' = [frame EXCEPT
                           ![c] = [mu |-> r.mu, rho_prime |-> r.rho_prime,
                                   values |-> r.values, kappa |-> 0]]
  /\ UNCHANGED apart
  /\ UNCHANGED <<pc, key, key2, public_key, iteration,
                 encoded_signature, verify_call>>

\* A caller's call goes once through the signing loop.
SharedSignIteration ==
  /\ \E c \in Callers :
       /\ sign_call[c] # NoCall
       /\ sign_call[c].ret = -1
       /\ \E own \in {call_values(frame, c)} :
            \E it \in {mldsa_sign_iteration(own.values, own.mu, own.rho_prime,
                                            own.kappa)} :
              IF it.rejected = 0
              THEN /\ encoded_signature' =
                        [encoded_signature EXCEPT ![c] = it.out]
                   /\ sign_call' = [sign_call EXCEPT ![c].ret = 1]
                   /\ frame' = [frame EXCEPT ![c] = kUnwritten]
              ELSE /\ frame' = [frame EXCEPT
                                  ![c] = [own EXCEPT
                                            !.values = it.values,
                                            !.kappa = own.kappa + L]]
                   /\ UNCHANGED <<encoded_signature, sign_call>>
  /\ UNCHANGED apart
  /\ UNCHANGED <<pc, key, key2, public_key, iteration,
                 verify_call>>

\* A caller has the signature it wrote verified with the shared public key.
SharedVerify ==
  /\ \E c \in Callers :
       /\ sign_call[c] # NoCall
       /\ sign_call[c].ret = 1
       /\ verify_call[c] = NoCall
       /\ \E r \in {MLDSA65_verify(public_key.pub, encoded_signature[c],
                                    sign_call[c].msg, <<>>, TRUE)} :
            verify_call' = [verify_call EXCEPT ![c] = [ret |-> r.ret]]
  /\ UNCHANGED apart
  /\ UNCHANGED <<pc, key, key2, public_key, iteration,
                 sign_call, frame, encoded_signature>>

NextShared ==
  \/ SharedSign
  \/ SharedSignIteration
  \/ SharedVerify

SpecShared == InitShared /\ [][NextShared]_vars

(***************************************************************************)
(* The signing loop on its own.  What a pass measures (the norms of z, r0  *)
(* and ct0 and the weight of h) depends on the key, the message and the    *)
(* randomizer only through SHAKE; here the measures are inputs, drawn      *)
(* around the limits of the two tests, so that every way through the loop  *)
(* is taken at every kappa.                                                *)
(***************************************************************************)
\* The largest kappa a pass is modelled for.
MaxKappa == 65540

\* The parameter of assert(kappa + L <= 0x10000) in vector_expand_mask.
kMaskIndexLimit == 65536

ZMaxInputs == {gamma1 - beta - 1, gamma1 - beta}

R0MaxInputs == {kGamma2 - beta - 1, kGamma2 - beta}

Ct0MaxInputs == {kGamma2 - 1, kGamma2}

HOnesInputs == {omega, omega + 1}

\* assertions: whether the build keeps assert() (it is compiled out under
\* NDEBUG).
InitLoop ==
  /\ NoCaller
  /\ \E assertions \in BOOLEAN :
       loop = [pc |-> "looping", assertions |-> assertions, kappa |-> 0,
               expanded |-> -1, passes |-> 0, z_max |-> -1, r0_max |-> -1,
               ct0_max |-> -1, h_ones |-> -1, rejected |-> -1, ret |-> -1,
               emitted |-> FALSE]
  /\ hint = [pc |-> "idle"]
  /\ scalar = [pc |-> "idle"]

\* vector_expand_mask stopping the program at its assertion.
LoopAssert ==
  /\ loop.pc = "looping"
  /\ loop.assertions
  /\ ~(loop.kappa + L <= kMaskIndexLimit)
  /\ loop' = [loop EXCEPT !.pc = "aborted"]
  /\ UNCHANGED <<pc, key, key2, public_key, sign_call, frame, iteration,
                 encoded_signature, verify_call, hint, scalar>>

\* One pass through for (size_t kappa = 0;; kappa += L): the mask is
\* expanded at kappa, the first test either ends the pass or lets it go on
\* to compute ct0 and h, the second test either ends the pass or lets it
\* write the signature and return 1.
LoopPass ==
  /\ loop.pc = "looping"
  /\ loop.kappa <= MaxKappa
  /\ loop.assertions => loop.kappa + L <= kMaskIndexLimit
  /\ \E z_max \in ZMaxInputs, r0_max \in R0MaxInputs,
        ct0_max \in Ct0MaxInputs, h_ones \in HOnesInputs :
       LET first == first_check_rejects(z_max, r0_max)
           second == second_check_rejects(ct0_max, h_ones)
           measured == [loop EXCEPT !.expanded = loop.kappa,
                                    !.passes = loop.passes + 1,
                                    !.z_max = z_max, !.r0_max = r0_max]
       IN  IF first
           THEN loop' = [measured EXCEPT !.ct0_max = -1, !.h_ones = -1,
                                         !.rejected = 1,
                                         !.kappa = loop.kappa + L]
           ELSE IF second
           THEN loop' = [measured EXCEPT !.ct0_max = ct0_max,
                                         !.h_ones = h_ones, !.rejected = 2,
                                         !.kappa = loop.kappa + L]
           ELSE loop' = [measured EXCEPT !.ct0_max = ct0_max,
                                         !.h_ones = h_ones, !.rejected = 0,
                                         !.ret = 1, !.emitted = TRUE,
                                         !.pc = "returned"]
  /\ UNCHANGED <<pc, key, key2, public_key, sign_call, frame, iteration,
                 encoded_signature, verify_call, hint, scalar>>

NextLoop ==
  \/ LoopAssert
  \/ LoopPass

SpecLoop == InitLoop /\ [][NextLoop]_vars

\* The loop with the thread that runs it never held up: a pass that can be
\* made is made, and an assertion that fails stops the program.
SpecLoopFair == SpecLoop /\ WF_vars(LoopPass) /\ WF_vars(LoopAssert)

(***************************************************************************)
(* Hint vectors through hint_bit_pack and hint_bit_unpack.                 *)
(***************************************************************************)
\* The K-vector whose coefficient number n (rows first) is 1 for n in ones.
HintVector(ones) ==
  [i \in 1..K |->
     [j \in 1..kDegree |->
        IF (i - 1) * kDegree + j - 1 \in ones THEN 1 ELSE 0]]

HintPrefix(m) == HintVector(0..(m - 1))

HintSuffix(m) == HintVector((K * kDegree - m)..(K * kDegree - 1))

HintSingle(m) == HintVector({m})

HintStride(m) == HintVector({n \in 0..(K * kDegree - 1) : n % (m + 2) = 0})

\* 0/1 vectors of every weight from none to all, with the ones at the start,
\* at the end, alone, and spread over all rows.
HintVectors ==
  {HintPrefix(m) : m \in 0..(K * kDegree)}
  \cup {HintSuffix(m) : m \in 0..(K * kDegree)}
  \cup {HintSingle(m) : m \in 0..(K * kDegree - 1)}
  \cup {HintStride(m) : m \in 0..(kDegree - 1)}

\* The values a byte of an encoding is replaced with.
HintByteInputs == {0, 1, 5, kDegree - 1, kDegree, omega, omega + 1, 255}

\* Encodings of omega + K bytes: what hint_bit_pack writes for five vectors
\* of weight at most omega (none, omega, 8 * K and fewer ones spread over the
\* rows, and the last row and four of the row before it), with one byte, at
\* any place, replaced.
HintInputs ==
  {[packed EXCEPT ![p] = b] :
     packed \in {hint_bit_pack(HintPrefix(0)), hint_bit_pack(HintPrefix(omega)),
                 hint_bit_pack(HintStride(kDegree \div 8 - 2)),
                 hint_bit_pack(HintStride(kDegree \div 8 + 1)),
                 hint_bit_pack(HintSuffix(kDegree + 4))},
     p \in 1..(omega + K), b \in HintByteInputs}

InitHint ==
  /\ NoCaller
  /\ loop = [pc |-> "idle"]
  /\ scalar = [pc |-> "idle"]
  /\ \/ \E h \in HintVectors :
          hint = [pc |-> "given", h |-> h, packed |-> kUnwritten, ret |-> -1,
                  out |-> kUnwritten]
     \/ \E in \in HintInputs :
          hint = [pc |-> "encoded", h |-> kUnwritten, packed |-> in,
                  ret |-> -1, out |-> kUnwritten]

\* hint_bit_pack of the vector; BSSL_CHECK stops the program at the first
\* one past omega.
HintPack ==
  /\ hint.pc = "given"
  /\ \E packed \in {hint_bit_pack(hint.h)} :
       hint' = [hint EXCEPT !.packed = packed,
                            !.pc = IF packed = kAborted THEN "aborted"
                                   ELSE "packed"]
  /\ UNCHANGED <<pc, key, key2, public_key, sign_call, frame, iteration,
                 encoded_signature, verify_call, loop, scalar>>

\* hint_bit_unpack of what hint_bit_pack wrote.
HintUnpack ==
  /\ hint.pc = "packed"
  /\ \E r \in {hint_bit_unpack(hint.packed)} :
       hint' = [hint EXCEPT !.ret = r[1], !.out = r[2], !.pc = "unpacked"]
  /\ UNCHANGED <<pc, key, key2, public_key, sign_call, frame, iteration,
                 encoded_signature, verify_call, loop, scalar>>

\* hint_bit_unpack of an encoding from outside.
HintDecode ==
  /\ hint.pc = "encoded"
  /\ \E r \in {hint_bit_unpack(hint.packed)} :
       hint' = [hint EXCEPT !.ret = r[1], !.out = r[2], !.pc = "decoded"]
  /\ UNCHANGED <<pc, key, key2, public_key, sign_call, frame, iteration,
                 encoded_signature, verify_call, loop, scalar>>

NextHint ==
  \/ HintPack
  \/ HintUnpack
  \/ HintDecode

SpecHint == InitHint /\ [][NextHint]_vars

(***************************************************************************)
(* Single scalars through the functions of the arithmetic, rounding and    *)
(* packing layers.  A scalar is given with the range [lo, hi] its          *)
(* coefficients stand for, a negative value v being held as kPrime + v.    *)
(***************************************************************************)
\* The number of the last spread scalar of each range.
MaxScalar == 40

\* The coefficient that holds the value v of (-kPrime, kPrime).
Held(v) == IF v < 0 THEN kPrime + v ELSE v

\* Scalar number n of the range [lo, hi]: number 0 holds the values at and
\* next to the two ends of the range, the others hold values spread over it.
ScalarInput(lo, hi, n) ==
  [j \in 1..kDegree |->
     IF n = 0
     THEN IF j <= kDegree \div 2
          THEN Held(IF lo + j - 1 <= hi THEN lo + j - 1 ELSE hi)
          ELSE Held(IF hi - (kDegree - j) >= lo THEN hi - (kDegree - j)
                    ELSE lo)
     ELSE Held(lo + ((n * 1000003 + j * 196611) % (hi - lo + 1)))]

\* The ranges of the four encodings, the range of all coefficients, and the
\* values around 2^12, kGamma2, kHalfPrime, kPrime - 1 - kGamma2 and
\* kPrime - 1 - 2^12, where the rounding functions change their result.
ScalarRanges ==
  {<<0, 2 ^ 10 - 1>>, <<-eta, eta>>, <<-(2 ^ 12) + 1, 2 ^ 12>>,
   <<-(2 ^ 19) + 1, 2 ^ 19>>, <<0, kPrime - 1>>,
   <<2 ^ 12 - 8, 2 ^ 12 + 8>>, <<kGamma2 - 8, kGamma2 + 8>>,
   <<kHalfPrime - 8, kHalfPrime + 8>>,
   <<kPrime - 1 - kGamma2 - 8, kPrime - 1 - kGamma2 + 8>>,
   <<kPrime - 1 - 2 ^ 12 - 8, kPrime - 1 - 2 ^ 12 + 8>>}

\* len bytes taken from the coefficients of a scalar.
BytesOf(s, len) == [i \in 1..len |-> s[((i - 1) % kDegree) + 1] % 256]

\* bitlen of an encoding of the signed range that ends at max.
SignedBits(max) == IF max = eta THEN 4 ELSE IF max = 2 ^ 12 THEN 13 ELSE 20

InitScalar ==
  /\ NoCaller
  /\ loop = [pc |-> "idle"]
  /\ hint = [pc |-> "idle"]
  /\ \E range \in ScalarRanges, n \in 0..MaxScalar :
       scalar = [pc |-> "given", lo |-> range[1], hi |-> range[2],
                 s |-> stored(ScalarInput(range[1], range[2], n)),
                 t |-> kUnwritten, encoded |-> kUnwritten, ret |-> -1,
                 out |-> kUnwritten, written |-> <<>>]

\* scalar_encode_10 of the scalar, then scalar_decode_10 of the bytes.
ScalarEncode10 ==
  /\ scalar.pc = "given"
  /\ scalar.lo = 0 /\ scalar.hi = 2 ^ 10 - 1
  /\ \E encoded \in {scalar_encode_10(scalar.s)} :
       \E out \in {scalar_decode_10(encoded)} :
         scalar' = [scalar EXCEPT !.encoded = encoded, !.ret = 1,
                                  !.out = out, !.written = <<out>>,
                                  !.pc = "decoded_10"]
  /\ UNCHANGED <<pc, key, key2, public_key, sign_call, frame, iteration,
                 encoded_signature, verify_call, loop, hint>>

\* scalar_encode_signed of the scalar, then scalar_decode_signed of the
\* bytes into a scalar of zeros.
ScalarEncodeSigned ==
  /\ scalar.pc = "given"
  /\ scalar.lo < 0 /\ scalar.hi <= 2 ^ 19
  /\ \E bits \in {SignedBits(scalar.hi)} :
       \E encoded \in {scalar_encode_signed(scalar.s, bits, scalar.hi)} :
         \E r \in {scalar_decode_signed(scalar_zero, encoded, bits,
                                        scalar.hi)} :
           scalar' = [scalar EXCEPT !.encoded = encoded, !.ret = r[1],
                                    !.out = r[2], !.written = <<r[2]>>,
                                    !.pc = "decoded_signed"]
  /\ UNCHANGED <<pc, key, key2, public_key, sign_call, frame, iteration,
                 encoded_signature, verify_call, loop, hint>>

\* scalar_add, scalar_sub and scalar_mult of the scalar and a second one of
\* its range.
ScalarArithmetic ==
  /\ scalar.pc = "given"
  /\ \E n \in {0, MaxScalar} :
       \E t \in {stored(ScalarInput(scalar.lo, scalar.hi, n))} :
         scalar' = [scalar EXCEPT !.t = t,
                                  !.written = <<scalar_add(scalar.s, t),
                                                scalar_sub(scalar.s, t),
                                                scalar_mult(scalar.s, t)>>,
                                  !.pc = "computed"]
  /\ UNCHANGED <<pc, key, key2, public_key, sign_call, frame, iteration,
                 encoded_signature, verify_call, loop, hint>>

\* The scalar 1.
scalar_one == [j \in 1..kDegree |-> IF j = 1 THEN 1 ELSE 0]

\* scalar_ntt and scalar_inverse_ntt of the scalar, each of what the other
\* wrote, and scalar_inverse_ntt of the scalar_mult of the transform with
\* the transform of 1.
ScalarNtt ==
  /\ scalar.pc = "given"
  /\ \E ntt \in {scalar_ntt(scalar.s)},
        inverse \in {scalar_inverse_ntt(scalar.s)} :
       scalar' = [scalar EXCEPT
                    !.written =
                      <<ntt, inverse, scalar_inverse_ntt(ntt),
                        scalar_ntt(inverse),
                        scalar_inverse_ntt(
                          scalar_mult(ntt, scalar_ntt(scalar_one)))>>,
                    !.pc = "transformed"]
  /\ UNCHANGED <<pc, key, key2, public_key, sign_call, frame, iteration,
                 encoded_signature, verify_call, loop, hint>>

\* scalar_power2_round of the scalar.
ScalarPower2Round ==
  /\ scalar.pc = "given"
  /\ \E r \in {scalar_power2_round(scalar.s)} :
       scalar' = [scalar EXCEPT !.written = <<r[1], r[2]>>,
                                !.pc = "rounded"]
  /\ UNCHANGED <<pc, key, key2, public_key, sign_call, frame, iteration,
                 encoded_signature, verify_call, loop, hint>>

\* scalar_high_bits and scalar_low_bits of the scalar, and decompose of
\* each coefficient.
ScalarDecompose ==
  /\ scalar.pc = "given"
  /\ scalar' = [scalar EXCEPT
                  !.written = <<scalar_high_bits(scalar.s),
                                scalar_low_bits(scalar.s)>>,
                  !.out = stored([j \in 1..kDegree |->
                                    decompose(scalar.s[j])]),
                  !.pc = "decomposed"]
  /\ UNCHANGED <<pc, key, key2, public_key, sign_call, frame, iteration,
                 encoded_signature, verify_call, loop, hint>>

\* scalar_make_hint for the scalar as w, with a cs2 of [-beta, beta] and a
\* ct0 of (-kGamma2, kGamma2), and scalar_use_hint_vartime of the hint.
ScalarHint ==
  /\ scalar.pc = "given"
  /\ \E n \in {0, MaxScalar} :
       \E cs2 \in {stored(ScalarInput(-beta, beta, n))},
          ct0 \in {stored(ScalarInput(-kGamma2 + 1, kGamma2 - 1, n))} :
         \E h \in {scalar_make_hint(ct0, cs2, scalar.s)} :
           scalar' = [scalar EXCEPT
                        !.t = <<ct0, cs2>>,
                        !.written =
                          <<h, scalar_use_hint_vartime(
                                 h, scalar_add(scalar_sub(scalar.s, cs2),
                                               ct0))>>,
                        !.pc = "hinted"]
  /\ UNCHANGED <<pc, key, key2, public_key, sign_call, frame, iteration,
                 encoded_signature, verify_call, loop, hint>>

\* The four decoders on bytes taken from the scalar.
ScalarDecode ==
  /\ scalar.pc = "given"
  /\ \E in \in {stored(BytesOf(scalar.s, (20 * kDegree) \div 8))} :
       \E r \in {scalar_decode_signed_4_4(scalar_zero, in)} :
         scalar' = [scalar EXCEPT !.encoded = in, !.ret = r[1],
                                  !.written = <<scalar_decode_10(in),
                                                scalar_decode_signed_13_12(in),
                                                scalar_decode_signed_20_19(in),
                                                r[2]>>,
                                  !.pc = "decoded"]
  /\ UNCHANGED <<pc, key, key2, public_key, sign_call, frame, iteration,
                 encoded_signature, verify_call, loop, hint>>

\* The four samplers on a seed taken from the scalar.
ScalarExpand ==
  /\ scalar.pc = "given"
  /\ \E seed \in {stored(BytesOf(scalar.s, kRhoPrimeBytes + 2))} :
       scalar' = [scalar EXCEPT
                    !.encoded = seed,
                    !.written =
                      <<scalar_from_keccak_vartime(
                          SubSeq(seed, 1, kRhoBytes + 2)),
                        scalar_uniform(seed),
                        scalar_sample_mask(seed),
                        scalar_sample_in_ball_vartime(
                          seed, 2 * lambda_bytes, tau)>>,
                    !.pc = "expanded"]
  /\ UNCHANGED <<pc, key, key2, public_key, sign_call, frame, iteration,
                 encoded_signature, verify_call, loop, hint>>

NextScalar ==
  \/ ScalarEncode10
  \/ ScalarEncodeSigned
  \/ ScalarArithmetic
  \/ ScalarNtt
  \/ ScalarPower2Round
  \/ ScalarDecompose
  \/ ScalarHint
  \/ ScalarDecode
  \/ ScalarExpand

SpecScalar == InitScalar /\ [][NextScalar]_vars

(***************************************************************************)
(* Coefficients around the places where the rounding functions change      *)
(* their result: high_bits steps at the odd multiples of kGamma2 and the    *)
(* r0 of decompose changes sign at the even ones (32 * kGamma2 being        *)
(* kPrime - 1).                                                            *)
(***************************************************************************)
\* The number of the last spread scalar of each range.
MaxAlgebra == 6

AlgebraRanges ==
  {<<k * kGamma2 - 8, k * kGamma2 + 8>> : k \in 1..31}
    \cup {<<0, 16>>, <<kPrime - 17, kPrime - 1>>, <<0, kPrime - 1>>}

InitAlgebra ==
  /\ NoCaller
  /\ loop = [pc |-> "idle"]
  /\ hint = [pc |-> "idle"]
  /\ \E range \in AlgebraRanges, n \in 0..MaxAlgebra :
       scalar = [pc |-> "coefficients", lo |-> range[1], hi |-> range[2],
                 s |-> stored(ScalarInput(range[1], range[2], n)),
                 t |-> kUnwritten, encoded |-> kUnwritten, ret |-> -1,
                 out |-> kUnwritten, written |-> <<>>]

\* The hints of a scalar: none set, all set, and every second one set.
HintPatterns ==
  {[j \in 1..kDegree |-> 0], [j \in 1..kDegree |-> 1],
   [j \in 1..kDegree |-> j % 2], [j \in 1..kDegree |-> (j + 1) % 2]}

\* scalar_use_hint_vartime of the scalar with hints given from outside, as
\* the verifier calls it.
AlgebraUseHint ==
  /\ scalar.pc = "coefficients"
  /\ \E h \in HintPatterns :
       scalar' = [scalar EXCEPT
                    !.t = stored(h),
                    !.written = <<scalar_use_hint_vartime(h, scalar.s)>>,
                    !.pc = "used_hint"]
  /\ UNCHANGED <<pc, key, key2, public_key, sign_call, frame, iteration,
                 encoded_signature, verify_call, loop, hint>>

\* The uint64_t arguments made of two scalars: the products of their
\* coefficients, as scalar_mult makes them; the words with a coefficient as
\* the upper half and any lower half; kPrime * 2^32 and the word below it.
MontgomeryInputs(s, t) ==
  {[j \in 1..kDegree |-> mul_u64(s[j], t[j])],
   [j \in 1..kDegree |->
      <<s[j] % W16, t[j] % W16, s[(j % kDegree) + 1] % W16,
        s[(j % kDegree) + 1] \div W16>>],
   [j \in 1..kDegree |->
      IF j % 2 = 1
      THEN <<0, 0, kPrime % W16, kPrime \div W16>>
      ELSE <<W16 - 1, W16 - 1, (kPrime - 1) % W16, (kPrime - 1) \div W16>>]}

\* reduce_montgomery of uint64_t words made of the scalar and a second one
\* of its range: out holds b and c of each word, written the results.
AlgebraMontgomery ==
  /\ scalar.pc = "coefficients"
  /\ \E n \in {0, MaxAlgebra} :
       \E x \in MontgomeryInputs(
                  scalar.s, stored(ScalarInput(scalar.lo, scalar.hi, n))) :
         scalar' = [scalar EXCEPT
                      !.t = stored(x),
                      !.out = stored([j \in 1..kDegree |->
                                        montgomery_c(x[j])]),
                      !.written = <<stored([j \in 1..kDegree |->
                                              reduce_montgomery(x[j])])>>,
                      !.pc = "reduced"]
  /\ UNCHANGED <<pc, key, key2, public_key, sign_call, frame, iteration,
                 encoded_signature, verify_call, loop, hint>>

\* The second factors of a product: a scalar of the range, X, -X^(kDegree-1)
\* and the scalar whose coefficients are all kPrime - 1.
ProductFactors(lo, hi) ==
  {stored(ScalarInput(lo, hi, MaxAlgebra)),
   stored([j \in 1..kDegree |-> IF j = 2 THEN 1 ELSE 0]),
   stored([j \in 1..kDegree |-> IF j = kDegree THEN kPrime - 1 ELSE 0]),
   stored([j \in 1..kDegree |-> kPrime - 1])}

\* The product of the scalar and a second one as matrix_mult and
\* vector_mult_scalar make it, brought back by scalar_inverse_ntt.
AlgebraProduct ==
  /\ scalar.pc = "coefficients"
  /\ \E b \in ProductFactors(scalar.lo, scalar.hi) :
       scalar' = [scalar EXCEPT
                    !.t = b,
                    !.written =
                      <<scalar_inverse_ntt(
                          scalar_mult(scalar_ntt(scalar.s), scalar_ntt(b)))>>,
                    !.pc = "multiplied"]
  /\ UNCHANGED <<pc, key, key2, public_key, sign_call, frame, iteration,
                 encoded_signature, verify_call, loop, hint>>

\* Scalars cs2 with coefficients of [-beta, beta]: 0, the two ends and
\* values spread over the range.
SmallErrors ==
  {stored([j \in 1..kDegree |-> 0]),
   stored([j \in 1..kDegree |-> IF j % 2 = 0 THEN beta ELSE kPrime - beta]),
   stored([j \in 1..kDegree |-> IF j % 2 = 1 THEN beta ELSE kPrime - beta]),
   stored(ScalarInput(-beta, beta, MaxAlgebra))}

\* Scalars ct0 with coefficients of [-kGamma2, kGamma2]: the two ends of the
\* range, the values next to them and to 0, and values spread over it.
HintErrors ==
  {stored([j \in 1..kDegree |-> kGamma2]),
   stored([j \in 1..kDegree |-> kPrime - kGamma2]),
   stored(ScalarInput(-kGamma2, kGamma2, 0)),
   stored(ScalarInput(-8, 8, 0)),
   stored(ScalarInput(-kGamma2, kGamma2, MaxAlgebra))}

\* scalar_make_hint for the scalar as w with a cs2 and a ct0, and
\* scalar_use_hint_vartime of the hint on w - cs2 + ct0, as the signer makes
\* the hint and the verifier uses it.
AlgebraHint ==
  /\ scalar.pc = "coefficients"
  /\ \E cs2 \in SmallErrors, ct0 \in HintErrors :
       \E h \in {scalar_make_hint(ct0, cs2, scalar.s)} :
         scalar' = [scalar EXCEPT
                      !.t = <<ct0, cs2>>,
                      !.written =
                        <<h, scalar_use_hint_vartime(
                               h, scalar_add(scalar_sub(scalar.s, cs2),
                                             ct0))>>,
                      !.pc = "hint_used"]
  /\ UNCHANGED <<pc, key, key2, public_key, sign_call, frame, iteration,
                 encoded_signature, verify_call, loop, hint>>

\* The signer's r0 = low_bits(w - cs2) and the high bits of w - cs2 and of
\* w, for the scalar as w and a cs2.
AlgebraLowBits ==
  /\ scalar.pc = "coefficients"
  /\ \E cs2 \in SmallErrors :
       \E r \in {scalar_sub(scalar.s, cs2)} :
         scalar' = [scalar EXCEPT
                      !.t = <<cs2>>,
                      !.written = <<scalar_low_bits(r), scalar_high_bits(r),
                                    scalar_high_bits(scalar.s)>>,
                      !.pc = "low_bits"]
  /\ UNCHANGED <<pc, key, key2, public_key, sign_call, frame, iteration,
                 encoded_signature, verify_call, loop, hint>>

NextAlgebra ==
  \/ AlgebraUseHint
  \/ AlgebraMontgomery
  \/ AlgebraProduct
  \/ AlgebraHint
  \/ AlgebraLowBits

SpecAlgebra == InitAlgebra /\ [][NextAlgebra]_vars

(***************************************************************************)
(* SampleInBall, one pass of its loop at a time.                           *)
(***************************************************************************)
\* The number of the last seed.
MaxBall == 11

BallSeed(n) ==
  stored([k \in 1..(2 * lambda_bytes) |-> (k * (2 * n + 1) + 17 * n) % 256])

\* First blocks of the stream next to the squeezed one: every byte 0, every
\* byte kDegree - 1, the bytes counting up and counting down.
BallBlocks(block) ==
  {stored(block), stored([k \in 1..136 |-> 0]),
   stored([k \in 1..136 |-> kDegree - 1]),
   stored([k \in 1..136 |-> k % 256]),
   stored([k \in 1..136 |-> (255 - k) % kDegree])}

InitBall ==
  /\ NoCaller
  /\ loop = [pc |-> "idle"]
  /\ hint = [pc |-> "idle"]
  /\ \E n \in 0..MaxBall :
       scalar = [pc |-> "seeded", seed |-> BallSeed(n)]

\* Everything before the for loop, for the stream of the seed or one that
\* starts with another block.
BallStart ==
  /\ scalar.pc = "seeded"
  /\ \E st \in {sample_in_ball_start(scalar.seed, 2 * lambda_bytes, tau)} :
       \E block \in BallBlocks(st.block) :
         scalar' = [pc |-> "sampling", seed |-> scalar.seed,
                    first |-> st.i,
                    st |-> [st EXCEPT !.block = block,
                                      !.signs = load_u64_le(block)]]
  /\ UNCHANGED <<pc, key, key2, public_key, sign_call, frame, iteration,
                 encoded_signature, verify_call, loop, hint>>

\* One pass of the for loop; the loop is left when i reaches kDegree.
BallStep ==
  /\ scalar.pc = "sampling"
  /\ scalar.st.i < kDegree
  /\ \E st \in {sample_in_ball_step(scalar.st)} :
       scalar' = [scalar EXCEPT
                    !.st = [st EXCEPT !.out = stored(st.out),
                                      !.block = stored(st.block)]]
  /\ UNCHANGED <<pc, key, key2, public_key, sign_call, frame, iteration,
                 encoded_signature, verify_call, loop, hint>>

BallReturn ==
  /\ scalar.pc = "sampling"
  /\ scalar.st.i >= kDegree
  /\ scalar' = [scalar EXCEPT !.pc = "sampled"]
  /\ UNCHANGED <<pc, key, key2, public_key, sign_call, frame, iteration,
                 encoded_signature, verify_call, loop, hint>>

NextBall ==
  \/ BallStart
  \/ BallStep
  \/ BallReturn

SpecBall == InitBall /\ [][NextBall]_vars

(***************************************************************************)
(* ASN1_INTEGER_set and ASN1_INTEGER_get.  A long and a uint64_t are held  *)
(* as the eight bytes of their object in memory, the least significant     *)
(* first, a long in two's complement; an ASN1_INTEGER is the record of its *)
(* type, its length and the bytes data points at, <<>> for a null data.    *)
(***************************************************************************)
V_ASN1_INTEGER == 2

V_ASN1_NEG == 256

V_ASN1_NEG_INTEGER == 258

\* type | V_ASN1_NEG.
or_V_ASN1_NEG(type) ==
  IF (type \div V_ASN1_NEG) % 2 = 1 THEN type ELSE type + V_ASN1_NEG

\* The bytes of ~v + 1, from byte i on, carry being what the lower bytes
\* carried.
RECURSIVE negate_from(_, _, _)
negate_from(v, i, carry) ==
  IF i > Len(v) THEN <<>>
  ELSE <<(255 - v[i] + carry) % 256>>
       \o negate_from(v, i + 1, (255 - v[i] + carry) \div 256)

\* 0 - v for a uint64_t v, and -r for a long r other than LONG_MIN.
negate64(v) == negate_from(v, 1, 1)

\* v >= 0 for a long v.
long_is_non_negative(v) == v[8] < 128

LONG_MAX == <<255, 255, 255, 255, 255, 255, 255, 127>>

LONG_MIN == <<0, 0, 0, 0, 0, 0, 0, 128>>

\* r64 > LONG_MAX for a uint64_t r64.
above_LONG_MAX(r64) == r64[8] >= 128

\* The long of an integer n, -2^31 < n < 2^31.
RECURSIVE bytes_of(_, _)
bytes_of(n, len) ==
  IF len = 0 THEN <<>> ELSE <<n % 256>> \o bytes_of(n \div 256, len - 1)

Long(n) == IF n >= 0 THEN bytes_of(n, 8) ELSE negate64(bytes_of(0 - n, 8))

\* v << (8 * k) for a long v.
shift_bytes(v, k) == [i \in 1..8 |-> IF i <= k THEN 0 ELSE v[i - k]]

CRYPTO_bswap8(v) == [i \in 1..8 |-> v[9 - i]]

\* The count the for loop of asn1_string_set_uint64 stops at.
RECURSIVE count_leading_zeros(_, _)
count_leading_zeros(data, leading_zeros) ==
  IF leading_zeros < 8 /\ data[leading_zeros + 1] = 0
  THEN count_leading_zeros(data, leading_zeros + 1)
  ELSE leading_zeros

\* OPENSSL_memmove(data, data + from, length) within the allocation.
OPENSSL_memmove(data, from, length) ==
  [i \in 1..Len(data) |-> IF i <= length THEN data[i + from] ELSE data[i]]

\* [ret, a].
asn1_string_set_uint64(out, v, type, malloc_ok) ==
  LET moved(a, leading_zeros) ==
        [ret |-> 1,
         a |-> [a EXCEPT !.length = 8 - leading_zeros,
                         !.data = OPENSSL_memmove(a.data, leading_zeros,
                                                  8 - leading_zeros)]]
      counted(a) == moved(a, count_leading_zeros(a.data, 0))
      typed(a) == counted([a EXCEPT !.type = type])
      copied(a) == typed([a EXCEPT !.data = CRYPTO_bswap8(v)])
  IN  IF ~malloc_ok
      THEN [ret |-> 0, a |-> out]
      ELSE copied(out)

ASN1_INTEGER_set_uint64(out, v, malloc_ok) ==
  asn1_string_set_uint64(out, v, V_ASN1_INTEGER, malloc_ok)

\* [ret, a].
ASN1_INTEGER_set(a, v, malloc_ok) ==
  LET negative(r) ==
        IF r.ret = 0 THEN r
        ELSE [ret |-> 1, a |-> [r.a EXCEPT !.type = V_ASN1_NEG_INTEGER]]
  IN  IF long_is_non_negative(v)
      THEN ASN1_INTEGER_set_uint64(a, v, malloc_ok)
      ELSE negative(ASN1_INTEGER_set_uint64(a, negate64(v), malloc_ok))

\* r64 after the for loop of asn1_string_get_long, from byte i on.
RECURSIVE read_r64(_, _, _)
read_r64(a, i, r64) ==
  IF i < a.length
  THEN read_r64(a, i + 1, <<a.data[i + 1]>> \o SubSeq(r64, 1, 7))
  ELSE r64

\* asn1_string_get_long of an object that is there.
asn1_string_get_long(a, type) ==
  LET negated(r, neg) == IF neg = 1 THEN negate64(r) ELSE r
      read(r64, neg) ==
        IF a.data # <<>> /\ above_LONG_MAX(r64) THEN Long(-1)
        ELSE negated(r64, neg)
      sized(neg) ==
        IF a.length > 8 THEN Long(-1)
        ELSE read(IF a.data # <<>> THEN read_r64(a, 0, Long(0)) ELSE Long(0),
                  neg)
  IN  IF a.type = or_V_ASN1_NEG(type) THEN sized(1)
      ELSE IF a.type # type THEN Long(-1)
      ELSE sized(0)

ASN1_INTEGER_get(a) == asn1_string_get_long(a, V_ASN1_INTEGER)

\* The numbers whose longs are set, each shifted by every count of bytes.
SmallLongs ==
  {0, 1, -1, 2, 127, 128, -127, -128, -129, 255, 256, -255, -256, 32767,
   -32768, 2147483647, -2147483647}

Longs ==
  {stored(shift_bytes(Long(n), k)) : n \in SmallLongs, k \in 0..7}
    \cup {LONG_MAX, LONG_MIN, stored(negate64(LONG_MAX)),
          stored([LONG_MAX EXCEPT ![1] = 254])}

\* The objects a value is set in: a new ASN1_INTEGER, one that holds -1, and
\* one that holds 2^56.
PriorIntegers ==
  {[type |-> V_ASN1_INTEGER, length |-> 0, data |-> <<>>],
   [type |-> V_ASN1_NEG_INTEGER, length |-> 1,
    data |-> <<1, 0, 0, 0, 0, 0, 0, 1>>],
   [type |-> V_ASN1_INTEGER, length |-> 8,
    data |-> <<1, 0, 0, 0, 0, 0, 0, 0>>]}

InitAsn1 ==
  /\ NoCaller
  /\ loop = [pc |-> "idle"]
  /\ hint = [pc |-> "idle"]
  /\ \E a \in PriorIntegers : scalar = [pc |-> "new", a |-> a]

\* ASN1_INTEGER_set(a, v).
IntegerSet ==
  /\ scalar.pc = "new"
  /\ \E v \in Longs, malloc_ok \in BOOLEAN :
       \E r \in {ASN1_INTEGER_set(scalar.a, v, malloc_ok)} :
         scalar' = [pc |-> IF r.ret = 1 THEN "set" ELSE "failed",
                    a |-> [r.a EXCEPT !.data = stored(r.a.data)],
                    v |-> v, ret |-> r.ret]
  /\ UNCHANGED <<pc, key, key2, public_key, sign_call, frame, iteration,
                 encoded_signature, verify_call, loop, hint>>

\* ASN1_INTEGER_get(a) of the object a value was set in.
IntegerGet ==
  /\ scalar.pc = "set"
  /\ \E r \in {ASN1_INTEGER_get(scalar.a)} :
       scalar' = [pc |-> "got", a |-> scalar.a, v |-> scalar.v,
                  ret |-> scalar.ret, r |-> stored(r)]
  /\ UNCHANGED <<pc, key, key2, public_key, sign_call, frame, iteration,
                 encoded_signature, verify_call, loop, hint>>

NextAsn1 ==
  \/ IntegerSet
  \/ IntegerGet

SpecAsn1 == InitAsn1 /\ [][NextAsn1]_vars

(***************************************************************************)
(* The assertions of the arithmetic and packing layers, as predicates of   *)
(* the arguments of a call: declassify_assert, assert and BSSL_CHECK stop  *)
(* the program where the predicate is false.  A uint32_t above 2^31 is     *)
(* held as a negative number, which no assertion of the form x < bound     *)
(* lets pass.                                                              *)
(***************************************************************************)
Below(x, bound) == 0 <= x /\ x < bound

reduce_once_asserts(x) == Below(x, 2 * kPrime)

abs_mod_prime_asserts(x) == Below(x, kPrime)

mod_sub_asserts(a, b) ==
  /\ Below(a, kPrime)
  /\ Below(b, kPrime)
  /\ reduce_once_asserts(kPrime + a - b)

reduce_montgomery_asserts(x) ==
  /\ Le64(x, <<0, 0, kPrime % W16, kPrime \div W16>>)
  /\ montgomery_c(x)[1][1] = 0
  /\ montgomery_c(x)[1][2] = 0
  /\ reduce_once_asserts(montgomery_c(x)[2])

\* The product of two uint32_t as scalar_mult and the transforms form it;
\* mul_u64 takes factors below 2^31, and a factor above is counted as a
\* failure.
mult_asserts(a, b) ==
  /\ 0 <= a /\ 0 <= b
  /\ reduce_montgomery_asserts(mul_u64(a, b))

scalar_add_asserts(lhs, rhs) ==
  \A i \in 1..kDegree : reduce_once_asserts(lhs[i] + rhs[i])

scalar_sub_asserts(lhs, rhs) ==
  \A i \in 1..kDegree : mod_sub_asserts(lhs[i], rhs[i])

scalar_mult_asserts(lhs, rhs) ==
  \A i \in 1..kDegree : mult_asserts(lhs[i], rhs[i])

\* The butterflies of one pass over offset of scalar_ntt.  Every coefficient
\* is read and written by one butterfly of the pass, so each reads what the
\* pass started with.
ntt_blocks_asserts(s, step, offset) ==
  \A i \in 0..(step - 1) :
    \A j \in (2 * offset * i)..(2 * offset * i + offset - 1) :
      LET step_root == kNTTRootsMontgomery[step + i + 1]
          even == s[j + 1]
          odd == reduce_montgomery(mul_u64(step_root, s[j + offset + 1]))
      IN  /\ mult_asserts(step_root, s[j + offset + 1])
          /\ reduce_once_asserts(odd + even)
          /\ mod_sub_asserts(even, odd)

RECURSIVE ntt_steps_asserts(_, _, _)
ntt_steps_asserts(s, step, offset) ==
  IF Len(s) = kDegree /\ step < kDegree
  THEN /\ ntt_blocks_asserts(s, step, offset)
       /\ ntt_steps_asserts(ntt_blocks(s, step, 0, offset), step * 2,
                            offset \div 2)
  ELSE TRUE

scalar_ntt_asserts(s) == ntt_steps_asserts(s, 1, kDegree \div 2)

intt_blocks_asserts(s, step, offset) ==
  \A i \in 0..(step - 1) :
    \A j \in (2 * offset * i)..(2 * offset * i + offset - 1) :
      LET step_root == kPrime - kNTTRootsMontgomery[step + (step - 1 - i) + 1]
          even == s[j + 1]
          odd == s[j + offset + 1]
      IN  /\ reduce_once_asserts(odd + even)
          /\ mult_asserts(step_root, kPrime + even - odd)

RECURSIVE intt_steps_asserts(_, _, _)
intt_steps_asserts(s, step, offset) ==
  IF Len(s) = kDegree /\ offset < kDegree
  THEN /\ intt_blocks_asserts(s, step, offset)
       /\ intt_steps_asserts(intt_blocks(s, step, 0, offset), step \div 2,
                             offset * 2)
  ELSE TRUE

scalar_inverse_ntt_asserts(s) ==
  LET t == intt_steps(s, kDegree \div 2, 1)
  IN  /\ intt_steps_asserts(s, kDegree \div 2, 1)
      /\ \A i \in 1..kDegree : mult_asserts(t[i], kInverseDegreeMontgomery)

vector_add_asserts(lhs, rhs) ==
  \A i \in 1..Len(lhs) : scalar_add_asserts(lhs[i], rhs[i])

vector_sub_asserts(lhs, rhs) ==
  \A i \in 1..Len(lhs) : scalar_sub_asserts(lhs[i], rhs[i])

vector_mult_scalar_asserts(lhs, rhs) ==
  \A i \in 1..Len(lhs) : scalar_mult_asserts(lhs[i], rhs)

vector_ntt_asserts(a) == \A i \in 1..Len(a) : scalar_ntt_asserts(a[i])

vector_inverse_ntt_asserts(a) ==
  \A i \in 1..Len(a) : scalar_inverse_ntt_asserts(a[i])

\* out->v[i] += m[i][j] * a[j], for every j in turn.
RECURSIVE matrix_mult_row_asserts(_, _, _, _)
matrix_mult_row_asserts(acc, row, a, j) ==
  IF Len(acc) = kDegree /\ j <= Len(a)
  THEN LET product == scalar_mult(row[j], a[j])
       IN  /\ scalar_mult_asserts(row[j], a[j])
           /\ scalar_add_asserts(acc, product)
           /\ matrix_mult_row_asserts(scalar_add(acc, product), row, a,
                                      j + 1)
  ELSE TRUE

matrix_mult_asserts(m, a) ==
  \A i \in 1..Len(m) : matrix_mult_row_asserts(scalar_zero, m[i], a, 1)

vector_power2_round_asserts(t) ==
  \A i \in 1..Len(t) : \A j \in 1..kDegree :
    mod_sub_asserts(t[i][j] % (2 ^ kDroppedBits), 2 ^ kDroppedBits)

vector_scale_power2_round_asserts(in) ==
  \A i \in 1..Len(in) : \A j \in 1..kDegree :
    /\ Below(in[i][j], 2 ^ 10)
    /\ Below(scale_power2_round(in[i][j]), kPrime)

vector_max_asserts(a) ==
  \A i \in 1..Len(a) : \A j \in 1..kDegree : abs_mod_prime_asserts(a[i][j])

vector_make_hint_asserts(ct0, cs2, w) ==
  \A i \in 1..Len(w) : \A j \in 1..kDegree :
    /\ mod_sub_asserts(w[i][j], cs2[i][j])
    /\ reduce_once_asserts(mod_sub(w[i][j], cs2[i][j]) + ct0[i][j])

\* scalar_encode_4 and scalar_encode_10 of every scalar.
vector_encode_asserts(a, bits) ==
  \A i \in 1..Len(a) : \A j \in 1..kDegree : Below(a[i][j], 2 ^ bits)

\* scalar_encode_signed_4_4, _13_12 and _20_19 of every scalar.
vector_encode_signed_asserts(a, bits, max) ==
  \A i \in 1..Len(a) : \A j \in 1..kDegree :
    /\ mod_sub_asserts(max, a[i][j])
    /\ Below(mod_sub(max, a[i][j]), 2 ^ bits)

hint_bit_pack_asserts(h) == hint_bit_pack(h) # kAborted

\* The decoders and the samplers call mod_sub with a constant and a field of
\* the input: of 4 bits against 4, of 13 against 2^12, of 20 against 2^19,
\* and with 1 and twice a bit.
decoder_asserts ==
  /\ \A nibble \in 0..15 : mod_sub_asserts(4, nibble)
  /\ \A x \in {0, 2 ^ 12, 2 ^ 13 - 1} : mod_sub_asserts(2 ^ 12, x)
  /\ \A x \in {0, 2 ^ 19, 2 ^ 20 - 1} : mod_sub_asserts(2 ^ 19, x)
  /\ \A bit \in {0, 1} : mod_sub_asserts(1, 2 * bit)

\* t = NTT^-1(A * NTT(s1)) + s2.
compute_t_asserts(rho, s1, s2) ==
  LET a_ntt == matrix_expand(rho)
      s1_ntt == vector_ntt(s1)
      t_ntt == matrix_mult(a_ntt, s1_ntt)
  IN  /\ vector_ntt_asserts(s1)
      /\ matrix_mult_asserts(a_ntt, s1_ntt)
      /\ vector_inverse_ntt_asserts(t_ntt)
      /\ vector_add_asserts(vector_inverse_ntt(t_ntt), s2)

\* Key generation that left the private key priv.
generate_key_asserts(priv) ==
  LET t == compute_t(priv.rho, priv.s1, priv.s2)
  IN  /\ decoder_asserts
      /\ compute_t_asserts(priv.rho, priv.s1, priv.s2)
      /\ vector_power2_round_asserts(t)
      /\ vector_encode_asserts(vector_power2_round(t)[1], 10)

\* mldsa_sign_internal before its loop.
sign_setup_asserts(priv) ==
  /\ vector_ntt_asserts(priv.s1)
  /\ vector_ntt_asserts(priv.s2)
  /\ vector_ntt_asserts(priv.t0)

\* One pass through the signing loop.  v holds what the pass wrote: y, w,
\* cs1, cs2, z, and in w1 either r0 (a pass refused by the first test) or
\* ct0; what was overwritten on the way is computed again.
sign_iteration_asserts(values, mu, rho_prime, kappa) ==
  LET it == mldsa_sign_iteration(values, mu, rho_prime, kappa)
      v == it.values
      y_ntt == vector_ntt(v.y)
      w_ntt == matrix_mult(v.a_ntt, y_ntt)
      c == scalar_sample_in_ball_vartime(v.sign.c_tilde, 2 * lambda_bytes,
                                         tau)
      c_ntt == scalar_ntt(c)
      cs1_ntt == vector_mult_scalar(v.s1_ntt, c_ntt)
      cs2_ntt == vector_mult_scalar(v.s2_ntt, c_ntt)
      ct0_ntt == vector_mult_scalar(v.t0_ntt, c_ntt)
  IN  /\ decoder_asserts
      /\ vector_ntt_asserts(v.y)
      /\ matrix_mult_asserts(v.a_ntt, y_ntt)
      /\ vector_inverse_ntt_asserts(w_ntt)
      /\ vector_encode_asserts(vector_high_bits(v.w), 4)
      /\ scalar_ntt_asserts(c)
      /\ vector_mult_scalar_asserts(v.s1_ntt, c_ntt)
      /\ vector_inverse_ntt_asserts(cs1_ntt)
      /\ vector_mult_scalar_asserts(v.s2_ntt, c_ntt)
      /\ vector_inverse_ntt_asserts(cs2_ntt)
      /\ vector_add_asserts(v.y, v.cs1)
      /\ vector_sub_asserts(v.w, v.cs2)
      /\ vector_max_asserts(v.sign.z)
      /\ it.rejected # 1 =>
           /\ vector_mult_scalar_asserts(v.t0_ntt, c_ntt)
           /\ vector_inverse_ntt_asserts(ct0_ntt)
           /\ vector_make_hint_asserts(v.w1, v.cs2, v.w)
           /\ vector_max_asserts(v.w1)
      /\ it.rejected = 0 =>
           /\ vector_encode_signed_asserts(v.sign.z, 20, 2 ^ 19)
           /\ hint_bit_pack_asserts(v.sign.h)

\* mldsa_verify_internal after mldsa_parse_signature accepted sign.
verify_asserts(pub, sign) ==
  LET c == scalar_sample_in_ball_vartime(sign.c_tilde, 2 * lambda_bytes, tau)
      c_ntt == scalar_ntt(c)
      a_ntt == matrix_expand(pub.rho)
      z_ntt == vector_ntt(sign.z)
      az_ntt == matrix_mult(a_ntt, z_ntt)
      ct1 == vector_scale_power2_round(pub.t1)
      ct1_transformed == vector_ntt(ct1)
      ct1_ntt == vector_mult_scalar(ct1_transformed, c_ntt)
      w1_ntt == vector_sub(az_ntt, ct1_ntt)
  IN  /\ decoder_asserts
      /\ scalar_ntt_asserts(c)
      /\ vector_ntt_asserts(sign.z)
      /\ matrix_mult_asserts(a_ntt, z_ntt)
      /\ vector_scale_power2_round_asserts(pub.t1)
      /\ vector_ntt_asserts(ct1)
      /\ vector_mult_scalar_asserts(ct1_transformed, c_ntt)
      /\ vector_sub_asserts(az_ntt, ct1_ntt)
      /\ vector_inverse_ntt_asserts(w1_ntt)
      /\ vector_encode_asserts(
           vector_use_hint_vartime(sign.h, vector_inverse_ntt(w1_ntt)), 4)
      /\ vector_max_asserts(sign.z)

(***************************************************************************)
(* A caller who signs with a private key that was parsed and verifies      *)
(* under a public key and with signatures from elsewhere.                  *)
(***************************************************************************)
\* MLDSA65_parse_private_key, into the caller's key object, of an encoding
\* that it accepts.
ReparsePrivateKey ==
  /\ pc = "keyed"
  /\ key.call = "generate_key"
  /\ \E in \in PrivateKeyInputs(mldsa_marshal_private_key(key.private_key)) :
       \E r \in {MLDSA65_parse_private_key(key.private_key, in)} :
         /\ r[1] = 1
         /\ key' = [key EXCEPT !.private_key = r[2],
                               !.call = "parse_private_key"]
  /\ UNCHANGED apart
  /\ UNCHANGED <<pc, key2, public_key, sign_call, frame, iteration,
                 encoded_signature, verify_call>>

\* MLDSA65_sign of a message with the empty context, up to the signing loop.
SignMessage ==
  /\ pc = "keyed"
  /\ \E msg \in Messages :
       \E randomizer \in {Fill(2, MLDSA65_SIGNATURE_RANDOMIZER_BYTES)} :
         \E r \in {MLDSA65_sign_enter(key.private_key, msg, <<>>, randomizer,
                                       TRUE)} :
           /\ sign_call' =
                [msg |-> msg, context |-> <<>>, randomizer |-> randomizer,
                 rand_drawn |-> r.rand_drawn,
                 context_prefix |-> r.context_prefix, ret |-> -1]
           /\ frame' = [mu |-> r.mu, rho_prime |-> r.rho_prime,
                        values |-> r.values, kappa |-> 0]
           /\ pc' = "signing"
  /\ UNCHANGED apart
  /\ UNCHANGED <<key, key2, public_key, iteration, encoded_signature,
                 verify_call>>

\* Signatures of the right length from elsewhere: every byte 0, and c_tilde
\* and z of bytes 255 or 85 with the encoding of no hint.
ForeignSignatures ==
  {Fill(0, signature_bytes),
   Fill(255, signature_bytes - (omega + K)) \o Fill(0, omega + K),
   Fill(85, signature_bytes - (omega + K)) \o Fill(0, omega + K),
   Fill(255, signature_bytes)}

\* MLDSA65_verify under a public key that was parsed from bytes that are not
\* the generated key's.
VerifyForeign ==
  /\ pc = "parsed"
  /\ public_key.ret = 1
  /\ \E signature \in ForeignSignatures, msg \in Messages :
       \E r \in {MLDSA65_verify(public_key.pub, signature, msg, <<>>, TRUE)} :
           verify_call' =
             [signature |-> signature, msg |-> msg, context |-> <<>>,
              malloc_ok |-> TRUE, ret |-> r.ret, parsed |-> r.parsed,
              z_max |-> r.z_max, c_tilde |-> r.c_tilde,
              sign |-> IF r.parsed = 1 THEN r.sign ELSE kUnwritten,
              context_prefix |-> r.context_prefix]
  /\ pc' = "verified"
  /\ UNCHANGED apart
  /\ UNCHANGED <<key, key2, public_key, sign_call, frame, iteration,
                 encoded_signature>>

NextAsserted ==
  \/ GenerateKey
  \/ ParsePublicKey
  \/ ReparsePrivateKey
  \/ SignMessage
  \/ SignIteration
  \/ Verify
  \/ VerifyForeign

SpecAsserted == Init /\ [][NextAsserted]_vars

(***************************************************************************)
(* Properties of the caller's machine.                                     *)
(***************************************************************************)
\* The verifier was given the signature that MLDSA65_sign wrote, with the
\* message and the context it was written for.
VerifiedGenuine ==
  /\ pc = "verified"
  /\ sign_call.ret = 1
  /\ verify_call.signature = encoded_signature
  /\ verify_call.msg = sign_call.msg
  /\ verify_call.context = sign_call.context

Centred(x) == IF x <= (kPrime - 1) \div 2 THEN x ELSE kPrime - x

MaxCentred(z) ==
  LET S == {Centred(z[i][j]) : i \in 1..Len(z), j \in 1..kDegree}
  IN  CHOOSE m \in S : \A n \in S : n <= m

\* SHAKE-256(mu || w1Encode(UseHint(h, w'))) for the call in verify_call,
\* mu being SHAKE-256(tr || context prefix || context || message) and w'
\* being A z - c t1 2^d.
RecomputedChallenge ==
  LET pub == public_key.pub
      sign == verify_call.sign
      mu == BORINGSSL_keccak(kMuBytes,
                             pub.public_key_hash \o verify_call.context_prefix
                               \o verify_call.context \o verify_call.msg,
                             boringssl_shake256)
      c_ntt == scalar_ntt(
                 scalar_sample_in_ball_vartime(sign.c_tilde,
                                               2 * lambda_bytes, tau))
      w == vector_inverse_ntt(
             vector_sub(
               matrix_mult(matrix_expand(pub.rho), vector_ntt(sign.z)),
               vector_mult_scalar(
                 vector_ntt(vector_scale_power2_round(pub.t1)), c_ntt)))
  IN  BORINGSSL_keccak(2 * lambda_bytes,
                       mu \o w1_encode(vector_use_hint_vartime(sign.h, w)),
                       boringssl_shake256)

\* C2: for a signature that parses, the verifier returns 1 exactly when the
\* largest centred absolute value of z is below gamma1 - beta and the
\* recomputed challenge hash equals the signature's c_tilde; for a signature
\* that does not parse it returns 0.
VerifyAcceptance ==
  pc = "verified" =>
    /\ verify_call.parsed = 1 =>
         (verify_call.ret = 1 <=>
            /\ MaxCentred(verify_call.sign.z) < gamma1 - beta
            /\ RecomputedChallenge = verify_call.sign.c_tilde)
    /\ verify_call.parsed = 0 => verify_call.ret = 0

\* A signature whose recomputed challenge hash equals its c_tilde was refused
\* for the size of z alone.
VerifyAcceptanceReached ==
  /\ pc = "verified"
  /\ verify_call.parsed = 1
  /\ verify_call.ret = 0
  /\ verify_call.c_tilde = verify_call.sign.c_tilde
  /\ verify_call.z_max >= gamma1 - beta

\* C5: a context of more than 255 bytes makes MLDSA65_sign return 0 with no
\* randomizer drawn and nothing hashed; a context of more than 255 bytes or a
\* signature of another length than signature_bytes makes MLDSA65_verify
\* return 0 with nothing parsed or hashed; a seed of another length than 32
\* makes MLDSA65_private_key_from_seed return 0 with nothing hashed; and for
\* the other contexts the prefix absorbed into mu is <<0, context_len>>.
LengthsRefused ==
  /\ (sign_call # NoCall /\ Len(sign_call.context) > 255) =>
        /\ sign_call.ret = 0
        /\ ~sign_call.rand_drawn
        /\ sign_call.context_prefix = kUnwritten
        /\ frame = kUnwritten
  /\ (verify_call # NoCall
        /\ (Len(verify_call.context) > 255
             \/ Len(verify_call.signature) # signature_bytes)) =>
        /\ verify_call.ret = 0
        /\ verify_call.parsed = -1
        /\ verify_call.context_prefix = kUnwritten
        /\ verify_call.c_tilde = kUnwritten
  /\ (key.call = "private_key_from_seed"
        /\ Len(key.entropy) # MLDSA_SEED_BYTES) =>
        /\ key.ret = 0
        /\ key.hashed = <<>>
  /\ (sign_call # NoCall /\ Len(sign_call.context) <= 255) =>
        /\ sign_call.context_prefix = <<0, Len(sign_call.context)>>
        /\ pc = "signing" =>
              frame.mu = BORINGSSL_keccak(
                           kMuBytes,
                           key.private_key.public_key_hash
                             \o <<0, Len(sign_call.context)>>
                             \o sign_call.context \o sign_call.msg,
                           boringssl_shake256)
  /\ (verify_call # NoCall
        /\ Len(verify_call.context) <= 255
        /\ Len(verify_call.signature) = signature_bytes) =>
        verify_call.context_prefix = <<0, Len(verify_call.context)>>

\* The verifier refused a context of 256 bytes for a signature written for a
\* context of 255 bytes.
LengthsRefusedReached ==
  /\ pc = "verified"
  /\ Len(verify_call.context) = 256
  /\ verify_call.ret = 0
  /\ sign_call.context_prefix = <<0, 255>>

\* C6, as stated: whenever a public operation returns failure, the caller's
\* output object (key structure, encoded public key buffer or signature
\* buffer) is as it was before the call.
NoPartialOutput ==
  /\ public_key.ret = 0 => public_key.pub = PriorPublicKey(0)
  /\ key.ret = 0 =>
        /\ key.private_key = PriorPrivateKey(0)
        /\ key.encoded_public_key = Fill(0, public_key_bytes)
  /\ key2.ret = 0 => key2.private_key = PriorPrivateKey(3)
  /\ sign_call.ret = 0 => encoded_signature = Fill(0, signature_bytes)

HashOfEncoding(pub) ==
  BORINGSSL_keccak(kTrBytes, mldsa_marshal_public_key(pub),
                   boringssl_shake256)

\* C8, as stated: the public_key_hash of every public key that
\* MLDSA65_parse_public_key or MLDSA65_public_from_private returned with
\* success, and of every private key that key generation produced, is
\* SHAKE-256 of the encoding of that key's own rho and t1.
TrBelongsToKey ==
  /\ public_key.ret = 1 =>
        public_key.pub.public_key_hash = HashOfEncoding(public_key.pub)
  /\ (key.call = "generate_key" /\ key.ret = 1) =>
        key.private_key.public_key_hash
          = BORINGSSL_keccak(kTrBytes, key.encoded_public_key,
                             boringssl_shake256)

\* The values a coefficient of s1 or s2, of t0 and of t1 may hold.
InEtaRange(c) == (0 <= c /\ c <= eta) \/ (kPrime - eta <= c /\ c < kPrime)

InT0Range(c) ==
  (0 <= c /\ c <= 2 ^ 12) \/ (kPrime - 2 ^ 12 < c /\ c < kPrime)

InT1Range(c) == 0 <= c /\ c < 2 ^ 10

PrivateKeyInRange(priv) ==
  /\ \A i \in 1..L, j \in 1..kDegree : InEtaRange(priv.s1[i][j])
  /\ \A i \in 1..K, j \in 1..kDegree : InEtaRange(priv.s2[i][j])
  /\ \A i \in 1..K, j \in 1..kDegree : InT0Range(priv.t0[i][j])

\* C9: in a private key that key generation produced or that
\* MLDSA65_parse_private_key accepted every coefficient of s1 and s2 stands
\* for a value in [-4, 4] and every coefficient of t0 for one in
\* (-2^12, 2^12], and every coefficient of the t1 that key generation computes
\* or that parsing a public key yields is in [0, 2^10).
KeyRanges ==
  /\ key.ret = 1 => PrivateKeyInRange(key.private_key)
  /\ (key.ret = 1 /\ pc \in {"generated", "seeded"}) =>
        \A t1 \in {vector_power2_round(
                      compute_t(key.private_key.rho, key.private_key.s1,
                                key.private_key.s2))[1]} :
          \A i \in 1..K, j \in 1..kDegree : InT1Range(t1[i][j])
  /\ key2.ret = 1 => PrivateKeyInRange(key2.private_key)
  /\ public_key.ret = 1 =>
        \A i \in 1..K, j \in 1..kDegree : InT1Range(public_key.pub.t1[i][j])

\* A private key whose s1 and s2 are -4 throughout and whose t0 is -2^12 + 1
\* throughout was accepted by MLDSA65_parse_private_key.
KeyRangesReached ==
  /\ pc = "reparsed"
  /\ key2.ret = 1
  /\ key2.private_key.s1[1][1] = kPrime - eta
  /\ key2.private_key.t0[1][1] = kPrime - 2 ^ 12 + 1

\* The length of the encoding of a private key, and the places of its s1
\* and s2 bytes.
PrivateKeyEncodingBytes ==
  kRhoBytes + kKBytes + kTrBytes
    + ((plus_minus_eta_bitlen * kDegree) \div 8) * (L + K)
    + ((13 * kDegree) \div 8) * K

ShortSection ==
  (kRhoBytes + kKBytes + kTrBytes + 1)
    ..(kRhoBytes + kKBytes + kTrBytes
         + ((plus_minus_eta_bitlen * kDegree) \div 8) * (L + K))

\* C13: MLDSA65_parse_public_key returns 1 exactly for an input of
\* public_key_bytes bytes, and MLDSA65_parse_private_key exactly for an
\* input of the length of a private key's encoding in which every nibble of
\* the s1 and s2 sections is at most 8.
ParsersAccept ==
  /\ public_key.in # <<>> =>
        (public_key.ret = 1 <=> Len(public_key.in) = public_key_bytes)
  /\ key2.call = "parse_private_key" =>
        (key2.ret = 1 <=>
           /\ Len(key2.entropy) = PrivateKeyEncodingBytes
           /\ \A i \in ShortSection :
                 key2.entropy[i] % 16 <= 8 /\ key2.entropy[i] \div 16 <= 8)

\* An encoding of the right length with a high nibble of 9 in the last byte
\* of s2 was refused.
ParsersAcceptReached ==
  /\ key2.call = "parse_private_key"
  /\ key2.ret = 0
  /\ Len(key2.entropy) = PrivateKeyEncodingBytes
  /\ \E last \in {kRhoBytes + kKBytes + kTrBytes
                     + ((plus_minus_eta_bitlen * kDegree) \div 8) * (L + K)} :
        /\ key2.entropy[last] = 144
        /\ \A i \in ShortSection \ {last} :
              key2.entropy[i] % 16 <= 8 /\ key2.entropy[i] \div 16 <= 8

\* C16, as stated: when MLDSA65_sign returns, its randomizer buffer holds
\* zero bytes only, and when key generation returns, its augmented_entropy
\* buffer holds zero bytes only.  sign_call.randomizer and key.hashed are
\* what the two buffers hold at the return: each is written once, by
\* RAND_bytes and by the copy of the seed with K and L appended, and no
\* statement of either function writes it again.
BuffersZeroized ==
  /\ (sign_call # NoCall /\ sign_call.ret # -1 /\ sign_call.rand_drawn) =>
        sign_call.randomizer = Fill(0, MLDSA65_SIGNATURE_RANDOMIZER_BYTES)
  /\ (key.ret # -1 /\ key.hashed # <<>>) =>
        key.hashed = Fill(0, MLDSA_SEED_BYTES + 2)

(***************************************************************************)
(* Properties of concurrent calls.                                         *)
(***************************************************************************)
\* The signature of a call that runs through the signing loop alone.
RECURSIVE SignedAlone(_, _, _, _)
SignedAlone(values, mu, rho_prime, kappa) ==
  LET next(it) ==
        IF it.rejected = 0
        THEN it.out
        ELSE SignedAlone(it.values, mu, rho_prime, kappa + L)
  IN  IF kappa >= 0
      THEN next(mldsa_sign_iteration(values, mu, rho_prime, kappa))
      ELSE kUnwritten

SignatureAlone(priv, msg, randomizer) ==
  LET alone(r) == SignedAlone(r.values, r.mu, r.rho_prime, 0)
  IN  alone(MLDSA65_sign_enter(priv, msg, <<>>, randomizer, TRUE))

SignatureOnlyFromPassingPass ==
  /\ loop.pc = "returned" =>
        /\ loop.ret = 1
        /\ loop.z_max < gamma1 - beta
        /\ loop.r0_max < kGamma2 - beta
        /\ loop.ct0_max < kGamma2
        /\ loop.h_ones <= omega
  /\ (loop.pc # "idle" /\ loop.rejected \in {1, 2}) =>
        /\ ~loop.emitted
        /\ loop.ret = -1
        /\ loop.kappa = loop.expanded + L
        /\ \/ loop.z_max >= gamma1 - beta
           \/ loop.r0_max >= kGamma2 - beta
           \/ loop.ct0_max >= kGamma2
           \/ loop.h_ones > omega
  /\ loop.pc # "idle" => loop.kappa % L = 0
  /\ (loop.pc # "idle" /\ loop.emitted) => loop.pc = "returned"

\* The third pass returned 1 with a hint of exactly omega ones.
SignatureOnlyFromPassingPassReached ==
  /\ loop.pc = "returned"
  /\ loop.kappa = 2 * L
  /\ loop.passes = 3
  /\ loop.h_ones = omega
  /\ loop.z_max = gamma1 - beta - 1

\* C4, as stated: no mask is expanded with kappa + L above 2^16, and once
\* kappa + L would be above it the call has returned 0.
RetryExhaustionFails ==
  /\ loop.pc # "idle" => loop.expanded + L <= kMaskIndexLimit
  /\ (loop.pc # "idle" /\ loop.kappa + L > kMaskIndexLimit) =>
        (loop.pc = "returned" /\ loop.ret = 0)

\* C17, as stated: every run of the signing loop returns, whatever the two
\* tests of each pass say.  (A run that is still in the loop after the last
\* pass that is followed here counts as one that may yet return.)
SigningReturns == <>(loop.pc = "returned" \/ loop.kappa > MaxKappa)

(***************************************************************************)
(* Properties of hint packing.                                             *)
(***************************************************************************)
\* The number of ones of a hint vector.
HintOnes(h) ==
  Cardinality({n \in 0..(K * kDegree - 1) :
                 h[(n \div kDegree) + 1][(n % kDegree) + 1] # 0})

\* C10: for a 0/1 vector of at most omega ones, hint_bit_pack runs to its end
\* and hint_bit_unpack of what it wrote returns 1 and the vector.
HintRoundTrip ==
  /\ hint.pc = "aborted" => HintOnes(hint.h) > omega
  /\ (hint.pc = "unpacked" /\ HintOnes(hint.h) <= omega) =>
        /\ hint.ret = 1
        /\ hint.out = hint.h

\* A vector of exactly omega ones, spread over the rows, went through both.
HintRoundTripReached ==
  /\ hint.pc = "unpacked"
  /\ HintOnes(hint.h) = omega
  /\ hint.h[K][kDegree] = 1
  /\ hint.out = hint.h

\* The count of ones up to and including row i that an encoding states.
HintLimit(in, i) == IF i = 0 THEN 0 ELSE in[omega + i]

\* A well-formed encoding of a hint: the K counts do not decrease and are at
\* most omega; the indices of a row increase strictly; the bytes from the
\* last count to omega - 1 are zero.  (An index is a byte and every byte is
\* below the source's kDegree = 256; in a ring of smaller degree an index is
\* also below the degree.)
HintWellFormed(in) ==
  /\ \A i \in 1..K :
        HintLimit(in, i - 1) <= HintLimit(in, i) /\ HintLimit(in, i) <= omega
  /\ \A i \in 1..K :
        \A p \in (HintLimit(in, i - 1) + 1)..(HintLimit(in, i) - 1) :
          in[p] < in[p + 1]
  /\ \A p \in (HintLimit(in, K) + 1)..omega : in[p] = 0
  /\ \A p \in 1..HintLimit(in, K) : in[p] < kDegree

BitPackRoundTrip ==
  /\ scalar.pc = "decoded_10" => scalar.out = scalar.s
  /\ scalar.pc = "decoded_signed" => (scalar.ret = 1 /\ scalar.out = scalar.s)

\* The scalar whose coefficients are -2^19 + 1, ... and ..., 2^19 came back
\* from its 20-bit encoding.
BitPackRoundTripReached ==
  /\ scalar.pc = "decoded_signed"
  /\ scalar.s[1] = kPrime - 2 ^ 19 + 1
  /\ scalar.s[kDegree] = 2 ^ 19
  /\ scalar.out = scalar.s

\* A coefficient below kPrime.  A coefficient is a uint32_t; where the code
\* stores an int32_t in one, the model keeps the int32_t, and a negative one
\* is a uint32_t of 2^31 or more.
InField(c) == 0 <= c /\ c < kPrime

\* C14, as stated: every coefficient of every scalar that an operation of
\* the arithmetic, rounding, decoding and expansion layers wrote, given
\* scalars of coefficients below kPrime, is below kPrime.
ScalarsWellFormed ==
  scalar.pc \notin {"idle", "given"} =>
    \A k \in 1..Len(scalar.written) :
      \A j \in 1..kDegree : InField(scalar.written[k][j])

\* x * 2^k mod kPrime.
RECURSIVE DoubledMod(_, _)
DoubledMod(x, k) == IF k = 0 THEN x ELSE DoubledMod((2 * x) % kPrime, k - 1)

Power2RoundRecombines ==
  scalar.pc = "rounded" =>
    \A j \in 1..kDegree :
      /\ InT1Range(scalar.written[1][j])
      /\ InT0Range(scalar.written[2][j])
      /\ (scalar.written[1][j] * 2 ^ kDroppedBits + scalar.written[2][j])
            % kPrime = scalar.s[j]

\* 2^12 - 1 was rounded to <<0, 2^12 - 1>> and 2^12 + 1 to <<1, -2^12 + 1>>.
Power2RoundRecombinesReached ==
  /\ scalar.pc = "rounded"
  /\ scalar.s[8] = 2 ^ 12 - 1
  /\ scalar.written[1][8] = 0
  /\ scalar.written[2][8] = 2 ^ 12 - 1
  /\ scalar.s[9] = 2 ^ 12 + 1
  /\ scalar.written[1][9] = 1
  /\ scalar.written[2][9] = kPrime - 2 ^ 12 + 1

\* x mod+- m: the value of (-m/2, m/2] congruent to x modulo m.
CentredMod(x, m) == IF x % m > m \div 2 THEN (x % m) - m ELSE x % m

\* HighBits as the reference describes it.
ReferenceHighBits(x) ==
  IF x - CentredMod(x, 2 * kGamma2) = kPrime - 1
  THEN 0
  ELSE (x - CentredMod(x, 2 * kGamma2)) \div (2 * kGamma2)

\* C20: for x in [0, kPrime), decompose(x) is <<r1, r0>> with
\* r1 = high_bits(x), r0 within kGamma2 of 0 and r1 * 2 * kGamma2 + r0
\* congruent to x modulo kPrime, and high_bits(x) is what the reference
\* description gives; scalar_high_bits and scalar_low_bits write the two.
DecomposeCorrect ==
  scalar.pc = "decomposed" =>
    \A j \in 1..kDegree :
      /\ scalar.out[j][1] = high_bits(scalar.s[j])
      /\ scalar.out[j][1] = scalar.written[1][j]
      /\ scalar.out[j][2] = scalar.written[2][j]
      /\ -kGamma2 <= scalar.out[j][2] /\ scalar.out[j][2] <= kGamma2
      /\ (scalar.out[j][1] * 2 * kGamma2 + scalar.out[j][2] + kPrime)
            % kPrime = scalar.s[j]
      /\ scalar.out[j][1] = ReferenceHighBits(scalar.s[j])

\* kPrime - 1 was decomposed into <<0, -1>> and kPrime - 8 into <<0, -8>>.
DecomposeCorrectReached ==
  /\ scalar.pc = "decomposed"
  /\ scalar.s[kDegree] = kPrime - 1
  /\ scalar.out[kDegree] = <<0, -1>>
  /\ scalar.s[kDegree - 7] = kPrime - 8
  /\ scalar.out[kDegree - 7] = <<0, -8>>
  /\ scalar.s[2] = 1
  /\ scalar.out[2] = <<0, 1>>

(***************************************************************************)
(* Properties of single coefficients.                                      *)
(***************************************************************************)
\* C21: use_hint_vartime of a coefficient of [0, kPrime) and a hint is in
\* [0, 15], the range that scalar_encode_4 packs into four bits.
UseHintRange ==
  scalar.pc = "used_hint" =>
    \A j \in 1..kDegree :
      /\ scalar.s[j] \in 0..(kPrime - 1)
      /\ scalar.written[1][j] \in 0..15

\* A coefficient with high bits 15 and positive low bits took a hint and one
\* with high bits 0 and low bits at most 0 took one: the two sums wrapped.
UseHintRangeReached ==
  /\ scalar.pc = "used_hint"
  /\ \E j \in 1..kDegree :
       /\ scalar.t[j] = 1
       /\ decompose(scalar.s[j])[1] = 15
       /\ decompose(scalar.s[j])[2] > 0
       /\ scalar.written[1][j] = 0
  /\ \E j \in 1..kDegree :
       /\ scalar.t[j] = 1
       /\ decompose(scalar.s[j])[1] = 0
       /\ decompose(scalar.s[j])[2] <= 0
       /\ scalar.written[1][j] = 15

\* The carry out of the top limb of a + b for uint64_t a and b: 0 when the
\* sum is below 2^64.
CarryOut64(a, b) ==
  LET c0 == (a[1] + b[1]) \div W16
      c1 == (a[2] + b[2] + c0) \div W16
      c2 == (a[3] + b[3] + c1) \div W16
  IN  (a[4] + b[4] + c2) \div W16

\* The uint64_t x modulo kPrime.
Mod64(x) ==
  (x[1] + DoubledMod(x[2], 16) + DoubledMod(x[3], 32)
     + DoubledMod(x[4] % kPrime, 48)) % kPrime

\* a * kPrime for a = (uint32_t)x * kPrimeNegInverse.
MontgomeryAddend(x) ==
  LET a == Mul32x32(<<x[1], x[2]>>,
                    <<kPrimeNegInverseLo, kPrimeNegInverseHi>>)
  IN  Mul32x32(<<a[1], a[2]>>, Limbs32(kPrime))

\* C22: for a uint64_t x of [0, kPrime * 2^32], b = x + a * kPrime is
\* computed without a carry out of 64 bits, its lower 32 bits are zero,
\* b / 2^32 is below 2 * kPrime, and reduce_montgomery returns the value of
\* [0, kPrime) that is x * 2^-32 modulo kPrime.
MontgomeryReduces ==
  scalar.pc = "reduced" =>
    \A j \in 1..kDegree :
      LET x == scalar.t[j]
          b == scalar.out[j][1]
          r == scalar.written[1][j]
      IN  /\ Le64(x, <<0, 0, kPrime % W16, kPrime \div W16>>)
          /\ CarryOut64(x, MontgomeryAddend(x)) = 0
          /\ b = Add64(x, MontgomeryAddend(x))
          /\ b[1] = 0 /\ b[2] = 0
          /\ b[4] < 256 /\ b[3] + b[4] * W16 < 2 * kPrime
          /\ r \in 0..(kPrime - 1)
          /\ DoubledMod(r, 32) = Mod64(x)

\* kPrime * 2^32 was reduced to 0, the word below it needed the reduce_once,
\* and a product of two coefficients near kPrime was reduced.
MontgomeryReducesReached ==
  /\ scalar.pc = "reduced"
  /\ scalar.t[1] = <<0, 0, kPrime % W16, kPrime \div W16>>
  /\ scalar.written[1][1] = 0
  /\ scalar.out[2][2] >= kPrime
  /\ scalar.written[1][2] = scalar.out[2][2] - kPrime

\* The coefficients of a scalar that are not 0.
NonZero(s) == {j \in 1..Len(s) : s[j] # 0}

\* C23: after the pass of SampleInBall for index i exactly
\* i - (kDegree - tau) + 1 coefficients are not 0, all of them at indices up
\* to i and each 1 or kPrime - 1; the scalar returned has exactly tau of them.
SampleInBallShape ==
  scalar.pc \in {"sampling", "sampled"} =>
    /\ Len(scalar.st.out) = kDegree
    /\ Cardinality(NonZero(scalar.st.out)) = scalar.st.i - (kDegree - tau)
    /\ \A j \in NonZero(scalar.st.out) :
         j <= scalar.st.i /\ scalar.st.out[j] \in {1, kPrime - 1}
    /\ scalar.pc = "sampled" =>
         Cardinality(NonZero(scalar.st.out)) = tau

\* A scalar was returned whose last coefficient is not 0, that has
\* coefficients of both signs and one that is not 0 at an index below
\* kDegree - tau.
SampleInBallShapeReached ==
  /\ scalar.pc = "sampled"
  /\ scalar.st.out[kDegree] # 0
  /\ \E j \in 1..kDegree : scalar.st.out[j] = 1
  /\ \E j \in 1..kDegree : scalar.st.out[j] = kPrime - 1
  /\ \E j \in 1..(kDegree - tau) : scalar.st.out[j] # 0

\* a * b modulo kPrime for a and b of [0, kPrime).
MulMod(a, b) == Mod64(mul_u64(a, b))

\* The sum of the elements of a sequence.
RECURSIVE SumSeq(_)
SumSeq(s) == IF Len(s) = 0 THEN 0 ELSE Head(s) + SumSeq(Tail(s))

\* Coefficient k of a * b in Z_q[X]/(X^kDegree + 1), multiplied out term by
\* term: X^kDegree is -1, so the terms of degree kDegree + k are subtracted.
NegacyclicCoefficient(a, b, k) ==
  SumSeq([i \in 1..kDegree |->
            IF i <= k
            THEN MulMod(a[i], b[k - i + 1])
            ELSE (kPrime - MulMod(a[i], b[kDegree + k - i + 1])) % kPrime])
    % kPrime

\* C24: scalar_inverse_ntt of the scalar_mult of the scalar_ntt of two
\* scalars with coefficients in [0, kPrime) is their product in
\* Z_q[X]/(X^kDegree + 1), coefficient for coefficient, with no factor left.
NttProductIsRingProduct ==
  scalar.pc = "multiplied" =>
    \A k \in 1..kDegree :
      /\ InField(scalar.s[k]) /\ InField(scalar.t[k])
      /\ scalar.written[1][k] = NegacyclicCoefficient(scalar.s, scalar.t, k)

\* A scalar with coefficients next to kPrime was multiplied by
\* -X^(kDegree-1): its coefficient of X came back as the constant one and
\* its constant one, negated, as the highest.
NttProductIsRingProductReached ==
  /\ scalar.pc = "multiplied"
  /\ scalar.t[kDegree] = kPrime - 1
  /\ scalar.t[1] = 0
  /\ scalar.s[2] > kPrime - 20
  /\ scalar.written[1][1] = scalar.s[2]
  /\ scalar.s[1] # 0
  /\ scalar.written[1][kDegree] = kPrime - scalar.s[1]

\* C25: for w, cs2 and ct0 in [0, kPrime), ct0 holding a value of
\* [-kGamma2, kGamma2], use_hint_vartime of make_hint(ct0, cs2, w) and
\* w - cs2 + ct0 is high_bits of w - cs2.
HintRecoversHighBits ==
  scalar.pc = "hint_used" =>
    \A j \in 1..kDegree :
      /\ InField(scalar.s[j])
      /\ InField(scalar.t[1][j]) /\ InField(scalar.t[2][j])
      /\ abs_mod_prime(scalar.t[1][j]) <= kGamma2
      /\ scalar.written[2][j] = high_bits(mod_sub(scalar.s[j], scalar.t[2][j]))

\* Hints were set for a ct0 of kGamma2 and for one of -kGamma2, with a cs2
\* that is not 0, and used where the low bits are positive and where they
\* are not.
HintRecoversHighBitsReached ==
  /\ scalar.pc = "hint_used"
  /\ \E j, k \in 1..kDegree :
       /\ scalar.written[1][j] = 1 /\ scalar.written[1][k] = 1
       /\ scalar.t[1][j] = kGamma2 /\ scalar.t[1][k] = kPrime - kGamma2
       /\ scalar.t[2][j] # 0 /\ scalar.t[2][k] # 0
       /\ scalar.written[2][j]
            # high_bits(reduce_once(mod_sub(scalar.s[j], scalar.t[2][j])
                                     + scalar.t[1][j]))
       /\ scalar.written[2][k]
            # high_bits(reduce_once(mod_sub(scalar.s[k], scalar.t[2][k])
                                     + scalar.t[1][k]))

\* C26: for w and e in [0, kPrime), e holding a value of [-beta, beta], and
\* |low_bits(w - e)| < kGamma2 - beta, high_bits(w - e) is high_bits(w).
LowBitsCheckKeepsHighBits ==
  scalar.pc = "low_bits" =>
    \A j \in 1..kDegree :
      /\ InField(scalar.s[j]) /\ InField(scalar.t[1][j])
      /\ abs_mod_prime(scalar.t[1][j]) <= beta
      /\ abs_signed(scalar.written[1][j]) < kGamma2 - beta =>
           scalar.written[2][j] = scalar.written[3][j]

\* One coefficient next to an odd multiple of kGamma2 passed the check with
\* an e of beta or -beta, and for another one, which did not pass it,
\* w - e and w have different high bits.
LowBitsCheckKeepsHighBitsReached ==
  /\ scalar.pc = "low_bits"
  /\ \E j, k \in 1..kDegree :
       /\ abs_mod_prime(scalar.t[1][j]) = beta
       /\ abs_signed(scalar.written[1][j]) < kGamma2 - beta
       /\ abs_signed(scalar.written[1][j]) > kGamma2 - beta - 16
       /\ abs_signed(scalar.written[1][k]) >= kGamma2 - beta
       /\ scalar.written[2][k] # scalar.written[3][k]

SignCallSetup ==
  MLDSA65_sign_enter(key.private_key, sign_call.msg, sign_call.context,
                     sign_call.randomizer, TRUE)

\* C28: no assertion of the arithmetic and packing layers fails in a key
\* generation, in a signing call with a private key that was generated or
\* parsed, pass by pass, or in a verification of signature_bytes bytes under
\* a parsed public key: every reduce_once argument is below 2 * kPrime,
\* every mod_sub and abs_mod_prime argument below kPrime, every
\* reduce_montgomery argument at most kPrime * 2^32, every coefficient that
\* is encoded fits its width, scale_power2_round is given r1 < 2^10 and
\* hint_bit_pack at most omega ones.
AssertionsHold ==
  /\ pc = "generated" => generate_key_asserts(key.private_key)
  /\ (pc = "signing" /\ iteration.ret = -1) =>
        sign_setup_asserts(key.private_key)
  /\ (pc \in {"signing", "signed"} /\ iteration.ret # -1) =>
        LET setup == SignCallSetup
        IN  sign_iteration_asserts(setup.values, setup.mu, setup.rho_prime,
                                   iteration.kappa)
  /\ (pc = "verified" /\ verify_call.parsed = 1) =>
        verify_asserts(public_key.pub, verify_call.sign)

\* A signature was made with a parsed private key whose s1 and s2 hold -4
\* everywhere and whose t0 holds -2^12 + 1, after a pass that was refused,
\* and a verification parsed it.
AssertionsHoldReached ==
  /\ pc = "verified"
  /\ key.call = "parse_private_key"
  /\ \A i \in 1..L : \A j \in 1..kDegree : key.private_key.s1[i][j] = kPrime - 4
  /\ \A i \in 1..K : \A j \in 1..kDegree :
       key.private_key.t0[i][j] = kPrime - 2 ^ 12 + 1
  /\ iteration.ret = 1
  /\ iteration.kappa > 0
  /\ verify_call.parsed = 1
  /\ verify_call.signature = encoded_signature

\* The state right after MLDSA65_public_from_private acted on a private key
\* that key generation produced: the key of MLDSA65_private_key_from_seed, or
\* the generated key read back unchanged from its own encoding.
DerivedFromGenerated ==
  /\ pc \in {"derived", "failed"}
  /\ public_key.ret # -1
  /\ public_key.in = <<>>
  /\ \/ key.call = "private_key_from_seed" /\ key.ret = 1
     \/ /\ key.call = "generate_key"
        /\ key2.call = "parse_private_key"
        /\ key2.ret = 1
        /\ key2.private_key = key.private_key

\* What key generation put out as the encoded public key of that seed.  Key
\* generation from a seed discards it, so that it is generated again here.
GeneratedPublicKey ==
  IF key.call = "private_key_from_seed"
  THEN mldsa_generate_key_external_entropy(
         kUnwritten, key.private_key, key.entropy, TRUE).out_encoded_public_key
  ELSE key.encoded_public_key

stored_magnitude(a) ==
  [i \in 1..8 |-> IF i <= a.length THEN a.data[a.length + 1 - i] ELSE 0]

\* C30: once ASN1_INTEGER_set(a, v) has returned 1, for every long v, 0, -1,
\* LONG_MAX and LONG_MIN among them, ASN1_INTEGER_get(a) returns v; a holds
\* the magnitude of v in big-endian bytes with no leading zero byte, none at
\* all for v = 0; and the type of a is the negative one exactly when v < 0.
IntegerSetGetRoundTrip ==
  scalar.pc = "got" =>
    /\ scalar.ret = 1
    /\ scalar.r = scalar.v
    /\ stored_magnitude(scalar.a) =
         IF long_is_non_negative(scalar.v) THEN scalar.v
         ELSE negate64(scalar.v)
    /\ scalar.a.length = 0 \/ scalar.a.data[1] # 0
    /\ scalar.a.length = 0 <=> scalar.v = Long(0)
    /\ scalar.a.type = (IF long_is_non_negative(scalar.v) THEN V_ASN1_INTEGER
                        ELSE V_ASN1_NEG_INTEGER)

=============================================================================
